---- MODULE Spec2Model ----
(***************************************************************************)
(* Monitoring-and-alerting engine of submarine-cable-monitor:              *)
(*   alert_system.py    AlertSystem (rule engine, store writes, dispatch)  *)
(*   network_monitor.py NetworkMonitor (probing, cycle, continuous driver) *)
(*   main.py            NetworkMonitoringSystem (single / monitor modes)   *)
(*                                                                         *)
(* Numbers.  packet_loss and threshold are Python floats.  Every value the *)
(* model needs is a multiple of 1/Scale percent, Scale = lcm(1..MaxRetry), *)
(* so a float x is represented by the integer x * Scale.  Sums of 0.0 and  *)
(* 100.0 samples are exact in binary floating point and the division by    *)
(* the sample count is correctly rounded, hence monotone: comparing the    *)
(* quotient with 20, 100 or a rule threshold gives the same answer as      *)
(* comparing the exact rational, which is what the integers compare.       *)
(* Timestamps (datetime.now()) are not part of the state.                  *)
(***************************************************************************)
EXTENDS Integers, Sequences, FiniteSets, Bags, TLC

\* ---- bounds of the model ------------------------------------------------
\* retry_count values explored for one group task on its own: 1..MaxRetry
\* (from 6 samples on, a record can lose a sample and stay below 20 %)
MaxRetry == 6
\* retry_count values explored when the three groups run together: 1..CycleRetry
CycleRetry == 2
\* rule-set mutations (add / remove / update) explored in one behaviour
MaxMutations == 1
\* monitoring cycles the continuous driver may start in one behaviour
MaxCycles == 2
\* lost probes, failed store writes and driver exceptions in one behaviour of
\* the whole system
MaxFaults == 2
\* direct calls of check_alert_conditions in one behaviour
MaxCalls == 3
\* rows of the alerts table in one behaviour of the store operations
MaxRows == 4

\* ---- program constants ----------------------------------------------------
FullLoss == 100
DownLimit == 100
DegradedLimit == 20

RECURSIVE Gcd(_, _)
Gcd(a, b) == IF b = 0 THEN a ELSE Gcd(b, a % b)

RECURSIVE LcmUpTo(_)
LcmUpTo(n) == IF n <= 1 THEN 1 ELSE LET l == LcmUpTo(n - 1) IN (l * n) \div Gcd(l, n)

\* one percent, in model units
Scale == LcmUpTo(IF MaxRetry > CycleRetry THEN MaxRetry ELSE CycleRetry)

Pct(p) == p * Scale

TargetTypes == {"cable", "isp", "cloud"}
Severities == {"LOW", "MEDIUM", "HIGH", "CRITICAL"}
Conditions == {"threshold", "percentage", "consecutive_failures"}

\* ---- AlertRule and the default rule set -----------------------------------
AlertRule(n, c, t, tt, s) ==
    [name |-> n, condition |-> c, threshold |-> t, target_type |-> tt,
     severity |-> s, enabled |-> TRUE]

\* mutant: the outage rule is restricted to submarine cables
DefaultRules_cableoutage ==
    << AlertRule("High Packet Loss Alert", "threshold", Pct(20), "all", "MEDIUM"),
       AlertRule("Complete Outage Alert", "threshold", Pct(100), "cable", "HIGH"),
       AlertRule("Submarine Cable System Anomaly", "threshold", Pct(10), "cable", "HIGH"),
       AlertRule("ISP Connection Anomaly", "threshold", Pct(15), "isp", "MEDIUM"),
       AlertRule("Cloud Service Anomaly", "threshold", Pct(25), "cloud", "MEDIUM") >>

\* the five rules of _setup_alert_rules
DefaultRules ==
    << AlertRule("High Packet Loss Alert", "threshold", Pct(20), "all", "MEDIUM"),
       AlertRule("Complete Outage Alert", "threshold", Pct(100), "all", "HIGH"),
       AlertRule("Submarine Cable System Anomaly", "threshold", Pct(10), "cable", "HIGH"),
       AlertRule("ISP Connection Anomaly", "threshold", Pct(15), "isp", "MEDIUM"),
       AlertRule("Cloud Service Anomaly", "threshold", Pct(25), "cloud", "MEDIUM") >>

\* latency of a record: the sentinel Inf (float('inf')) or a finite value
Inf == [inf |-> TRUE, ms |-> 0]
Finite(x) == [inf |-> FALSE, ms |-> x]

\* ---- AlertSystem.check_alert_conditions -------------------------------------
\* the Alert built at alert_system.py:117-130 (id None is 0; resolved False)
NewAlert(rule, sd) ==
    [id |-> 0,
     rule_name |-> rule.name,
     target |-> sd.target,
     target_type |-> sd.target_type,
     severity |-> rule.severity,
     message |-> [text |-> rule.name, target |-> sd.target, loss |-> sd.packet_loss],
     details |-> [packet_loss |-> sd.packet_loss, latency |-> sd.latency,
                  threshold |-> rule.threshold],
     resolved |-> FALSE]

\* mutant: the threshold test is strict
CheckRule_strict(rule, sd, acc) ==
    IF rule.enabled /\ rule.target_type \in {"all", sd.target_type}
       /\ rule.condition = "threshold" /\ sd.packet_loss > rule.threshold
      THEN Append(acc, NewAlert(rule, sd))
      ELSE acc

\* mutant: the target-type filter is missing
CheckRule_nofilter(rule, sd, acc) ==
    IF rule.enabled /\ rule.condition = "threshold" /\ sd.packet_loss >= rule.threshold
      THEN Append(acc, NewAlert(rule, sd))
      ELSE acc

\* one iteration of the loop over self.alert_rules: the alerts list after
\* looking at `rule`
CheckRule(rule, sd, acc) ==
    IF ~rule.enabled
      THEN acc
      ELSE IF rule.target_type # "all" /\ sd.target_type # rule.target_type
        THEN acc
        ELSE IF rule.condition = "threshold"
          THEN IF sd.packet_loss >= rule.threshold
                 THEN Append(acc, NewAlert(rule, sd))
                 ELSE acc
          ELSE acc

RECURSIVE CheckFrom(_, _, _, _)
CheckFrom(rules, sd, i, acc) ==
    IF i > Len(rules) THEN acc
    ELSE CheckFrom(rules, sd, i + 1, CheckRule(rules[i], sd, acc))

check_alert_conditions(rules, sd) == CheckFrom(rules, sd, 1, << >>)

\* ---- rule-set mutation (alert_system.py:404-419) ---------------------------
add_alert_rule(rules, rule) == Append(rules, rule)

remove_alert_rule(rules, rule_name) ==
    SelectSeq(rules, LAMBDA r : r.name # rule_name)

RuleFields == {"name", "condition", "threshold", "target_type", "severity", "enabled"}

\* setattr for every key of kwargs that is an attribute of the rule
SetAttrs(rule, kwargs) ==
    [f \in RuleFields |-> IF f \in DOMAIN kwargs THEN kwargs[f] ELSE rule[f]]

\* index of the first rule named rule_name, 0 when there is none
FirstNamed(rules, rule_name) ==
    IF \E i \in 1..Len(rules) : rules[i].name = rule_name
      THEN CHOOSE i \in 1..Len(rules) :
             /\ rules[i].name = rule_name
             /\ \A j \in 1..(i - 1) : rules[j].name # rule_name
      ELSE 0

\* mutant: no break, every rule of that name is updated
update_alert_rule_all(rules, rule_name, kwargs) ==
    [i \in 1..Len(rules) |->
        IF rules[i].name = rule_name THEN SetAttrs(rules[i], kwargs) ELSE rules[i]]

update_alert_rule(rules, rule_name, kwargs) ==
    LET i == FirstNamed(rules, rule_name)
    IN  IF i = 0 THEN rules
        ELSE [rules EXCEPT ![i] = SetAttrs(rules[i], kwargs)]

\* ---- inputs of the rule engine ----------------------------------------------
\* the endpoint lists of the three groups (config.yaml, read at
\* network_monitor.py:160/181/202), in the order the groups are gathered
GroupOrder == << "cable", "isp", "cloud" >>

Endpoints ==
    [cable |-> << "203.208.60.1", "202.12.27.33" >>,
     isp   |-> << "72.52.94.1" >>,
     cloud |-> << "8.8.8.8" >>]

\* rules a caller may add: a new threshold rule, the two condition kinds
\* without evaluation logic, a second rule under an existing name, a disabled rule
AddableRules ==
    { AlertRule("Custom Rule", "threshold", Pct(5), "isp", "LOW"),
      AlertRule("Percentage Rule", "percentage", 0, "all", "CRITICAL"),
      AlertRule("Failure Streak", "consecutive_failures", 0, "all", "HIGH"),
      AlertRule("High Packet Loss Alert", "threshold", Pct(50), "cable", "CRITICAL"),
      [AlertRule("Disabled Rule", "threshold", 0, "all", "LOW") EXCEPT !.enabled = FALSE] }

\* keyword arguments of update_alert_rule
Patches ==
    { [enabled |-> FALSE],
      [threshold |-> Pct(50)],
      [condition |-> "percentage"],
      [target_type |-> "cloud"],
      [severity |-> "CRITICAL"],
      [name |-> "Complete Outage Alert"],
      [bogus |-> 1] }

RuleNames(rules) == {rules[i].name : i \in 1..Len(rules)}

\* keyword arguments of update_alert_rule with more than one key: known and
\* unknown names together, two known names
UpdateKwargs ==
    Patches \cup { [severity |-> "LOW", bogus |-> 1],
                   [enabled |-> FALSE, threshold |-> Pct(50)],
                   [bogus |-> 1, other |-> 2] }

\* packet-loss values around every threshold in use
LossInputs(rules) ==
    {0, Pct(FullLoss)}
      \cup {rules[i].threshold : i \in 1..Len(rules)}
      \cup {rules[i].threshold - 1 : i \in {j \in 1..Len(rules) : rules[j].threshold > 0}}

StatusData(target, tt, loss) ==
    [target |-> target, target_type |-> tt, packet_loss |-> loss,
     latency |-> IF loss >= Pct(FullLoss) THEN Inf ELSE Finite(Pct(150))]

NoStatus ==
    [target |-> "", target_type |-> "", packet_loss |-> 0, latency |-> Finite(0)]

\* ---- NetworkMonitor.ping_target / test_endpoint ---------------------------------
\* outcome of ping3.ping: a reply after rtt milliseconds, None (timeout) or an
\* exception
PingOutcomes(rtts) ==
    {[kind |-> "reply", rtt |-> r] : r \in rtts}
      \cup {[kind |-> "timeout", rtt |-> 0], [kind |-> "error", rtt |-> 0]}

\* (latency, loss) returned by ping_target; latency in 1/Scale ms
ping_target(out) ==
    IF out.kind = "reply"
      THEN << Finite(Pct(out.rtt)), 0 >>
      ELSE << Inf, Pct(FullLoss) >>

RECURSIVE SumSeq(_)
SumSeq(q) == IF q = << >> THEN 0 ELSE Head(q) + SumSeq(Tail(q))

RECURSIVE SumMs(_)
SumMs(q) == IF q = << >> THEN 0 ELSE Head(q).ms + SumMs(Tail(q))

\* mutant: the mean is taken over the samples that were answered
AvgLatency_answered(lats) ==
    LET answered == SelectSeq(lats, LAMBDA x : ~x.inf)
    IN  IF answered = << >> THEN Inf
        ELSE Finite(SumMs(answered) \div Len(answered))

\* sum(latencies) / len(latencies): one infinite term makes the mean infinite
AvgLatency(lats) ==
    IF \E i \in 1..Len(lats) : lats[i].inf
      THEN Inf
      ELSE Finite(SumMs(lats) \div Len(lats))

\* sum(packet_losses) / len(packet_losses)
AvgLoss(losses) == SumSeq(losses) \div Len(losses)

\* mutant: total loss is tested with > instead of >=
Classify_strict(avg_packet_loss) ==
    IF avg_packet_loss > Pct(DownLimit) THEN "down"
    ELSE IF avg_packet_loss >= Pct(DegradedLimit) THEN "degraded"
    ELSE "operational"

\* the status chosen at network_monitor.py:137-142
Classify(avg_packet_loss) ==
    IF avg_packet_loss >= Pct(DownLimit) THEN "down"
    ELSE IF avg_packet_loss >= Pct(DegradedLimit) THEN "degraded"
    ELSE "operational"

\* the NetworkStatus returned by test_endpoint
NetworkStatus(endpoint, tt, lats, losses, rc) ==
    [target |-> endpoint,
     target_type |-> tt,
     latency |-> AvgLatency(lats),
     packet_loss |-> AvgLoss(losses),
     status |-> Classify(AvgLoss(losses)),
     details |-> [latencies |-> lats, packet_losses |-> losses, retry_count |-> rc]]

NoRecord ==
    [target |-> "", target_type |-> "", latency |-> Finite(0), packet_loss |-> 0,
     status |-> "", details |-> [latencies |-> << >>, packet_losses |-> << >>,
                                 retry_count |-> 0]]

Groups == {GroupOrder[i] : i \in 1..Len(GroupOrder)}

\* ---- state -------------------------------------------------------------------
VARIABLES
    \* AlertSystem and its caller
    alert_rules,    \* AlertSystem.alert_rules
    status_data,    \* the dict last handed to check_alert_conditions
    alerts,         \* the list it returned
    mutations,      \* number of rule-set mutations so far
    calls,          \* number of check_alert_conditions calls so far
    streak,         \* how many calls in a row, the last included, had its record and rule set
    eval_pass,      \* the check_alert_conditions pass another thread may interleave with
    \* NetworkMonitoringSystem / NetworkMonitor drivers
    mode,           \* --mode: "single" or "monitor"
    pc,             \* position of the caller / driver coroutine
    sys_running,    \* NetworkMonitoringSystem.is_running
    mon_running,    \* NetworkMonitor.is_running
    cycles,         \* monitoring cycles started so far
    results,        \* all_results returned by run_monitoring_cycle
    ridx,           \* run_single_cycle: index of the result being processed
    aidx,           \* run_single_cycle: index of the alert being processed
    faults,         \* lost probes, failed store writes and driver exceptions so far
    fault_limit,    \* how many of them the behaviour may have
    \* the three group tasks of one cycle
    retry_count,    \* config monitoring.retry_count
    running,        \* the group task the event loop is executing, or "none"
    gpc,            \* position of each group task
    gidx,           \* index of the endpoint each group is at
    latencies,      \* test_endpoint's latencies list, per group
    packet_losses,  \* test_endpoint's packet_losses list, per group
    status,         \* the NetworkStatus a group has just built
    gresults,       \* the results list of each group task
    \* the sqlite store
    store_status,   \* rows of network_status: a bag (the code never reads their ids)
    store_alerts,   \* rows of alerts, in insertion order
    details_column, \* alerts.details exists (the migration script has run)
    api_call,       \* the last resolve_alert / query call on the store and how it ended
    stats,          \* the dict get_alert_statistics last returned
    active_alerts,  \* the ids of the list get_active_alerts last returned
    \* notification dispatch
    sections,       \* channel sections present in the configuration
    aiohttp_bound,  \* the name aiohttp is bound in module alert_system
    dispatch_alert, \* the alert send_alert_notifications was called with
    task,           \* state of each channel sender of that call
    dispatch_state  \* "idle", "running" or "returned"

ruleVars == << alert_rules, status_data, alerts, mutations, calls, streak, eval_pass >>
driverVars == << mode, pc, sys_running, mon_running, cycles, results, ridx, aidx >>
groupVars == << retry_count, running, gpc, gidx, latencies, packet_losses, status, gresults >>
apiVars == << api_call, stats, active_alerts >>
storeVars == << store_status, store_alerts, details_column, apiVars >>
dispatchVars == << sections, aiohttp_bound, dispatch_alert, task, dispatch_state >>

vars == << ruleVars, driverVars, faults, fault_limit, groupVars, storeVars, dispatchVars >>

Channels == {"email", "webhook", "slack"}

NoCall == [op |-> "none", arg |-> 0, raised |-> FALSE]

NoPass ==
    [active |-> FALSE, sd |-> NoStatus, rules |-> << >>, map |-> << >>, alias |-> FALSE,
     idx |-> 0, acc |-> << >>, start |-> << >>, same |-> FALSE]

NoStats ==
    [total_alerts |-> 0, resolved_alerts |-> 0, active_alerts |-> 0,
     severity_distribution |-> << >>, type_distribution |-> << >>]

NoAlert ==
    [id |-> 0, rule_name |-> "", target |-> "", target_type |-> "", severity |-> "",
     message |-> [text |-> "", target |-> "", loss |-> 0], details |-> [packet_loss |-> 0, latency |-> Finite(0), threshold |-> 0],
     resolved |-> FALSE]

\* everything a freshly constructed system has, whatever is run on it
\* everything but the rule set
InitOthers ==
    /\ status_data = NoStatus
    /\ alerts = << >>
    /\ mutations = 0
    /\ calls = 0
    /\ streak = 0
    /\ eval_pass = NoPass
    /\ sys_running = FALSE
    /\ mon_running = FALSE
    /\ cycles = 0
    /\ results = << >>
    /\ ridx = 0
    /\ aidx = 0
    /\ faults = 0
    /\ running = "none"
    /\ gidx = [g \in Groups |-> 0]
    /\ latencies = [g \in Groups |-> << >>]
    /\ packet_losses = [g \in Groups |-> << >>]
    /\ status = [g \in Groups |-> NoRecord]
    /\ gresults = [g \in Groups |-> << >>]
    /\ store_status = EmptyBag
    /\ store_alerts = << >>
    /\ api_call = NoCall
    /\ stats = NoStats
    /\ active_alerts = << >>
    /\ dispatch_alert = NoAlert
    /\ task = [c \in Channels |-> "none"]
    /\ dispatch_state = "idle"

\* AlertSystem.__init__: _setup_alert_rules installs the default rules
InitCommon ==
    /\ alert_rules = DefaultRules
    /\ InitOthers

\* ---- the rule engine called directly (run_example.py:110, alert_system.py:434)
\* mutant: the alerts list is kept between calls instead of starting empty
CheckAlertConditions_shared(sd) ==
    /\ pc \in {"idle", "evaluated"}
    /\ calls < MaxCalls
    /\ status_data' = sd
    /\ alerts' = CheckFrom(alert_rules, sd, 1, alerts)
    /\ calls' = calls + 1
    /\ streak' = IF pc = "evaluated" /\ sd = status_data THEN streak + 1 ELSE 1
    /\ pc' = "evaluated"
    /\ UNCHANGED << faults, fault_limit, alert_rules, mutations, eval_pass, mode, sys_running, mon_running, cycles,
                    results, ridx, aidx, groupVars, storeVars, dispatchVars >>

\* alerts = alert_system.check_alert_conditions(status): the list starts empty
\* (alert_system.py:104) and self.alert_rules is only read
CheckAlertConditions(sd) ==
    /\ pc \in {"idle", "evaluated"}
    /\ calls < MaxCalls
    /\ status_data' = sd
    /\ alerts' = check_alert_conditions(alert_rules, sd)
    /\ calls' = calls + 1
    /\ streak' = IF pc = "evaluated" /\ sd = status_data THEN streak + 1 ELSE 1
    /\ pc' = "evaluated"
    /\ UNCHANGED << faults, fault_limit, alert_rules, mutations, eval_pass, mode, sys_running, mon_running, cycles,
                    results, ridx, aidx, groupVars, storeVars, dispatchVars >>

AddAlertRule(rule) ==
    /\ pc \in {"idle", "evaluated"}
    /\ mutations < MaxMutations
    /\ alert_rules' = add_alert_rule(alert_rules, rule)
    /\ mutations' = mutations + 1
    /\ pc' = "idle"
    /\ UNCHANGED << faults, fault_limit, status_data, alerts, calls, streak, eval_pass, mode, sys_running, mon_running, cycles,
                    results, ridx, aidx, groupVars, storeVars, dispatchVars >>

RemoveAlertRule(rule_name) ==
    /\ pc \in {"idle", "evaluated"}
    /\ mutations < MaxMutations
    /\ alert_rules' = remove_alert_rule(alert_rules, rule_name)
    /\ mutations' = mutations + 1
    /\ pc' = "idle"
    /\ UNCHANGED << faults, fault_limit, status_data, alerts, calls, streak, eval_pass, mode, sys_running, mon_running, cycles,
                    results, ridx, aidx, groupVars, storeVars, dispatchVars >>

UpdateAlertRule(rule_name, kwargs) ==
    /\ pc \in {"idle", "evaluated"}
    /\ mutations < MaxMutations
    /\ alert_rules' = update_alert_rule(alert_rules, rule_name, kwargs)
    /\ mutations' = mutations + 1
    /\ pc' = "idle"
    /\ UNCHANGED << faults, fault_limit, status_data, alerts, calls, streak, eval_pass, mode, sys_running, mon_running, cycles,
                    results, ridx, aidx, groupVars, storeVars, dispatchVars >>

\* ---- the group tasks: monitor_submarine_cables / monitor_isps / monitor_cloud_providers
\* asyncio runs one task at a time and switches only at an await: a group task
\* holds the event loop (running = g) from the moment it is resumed until it
\* reaches asyncio.sleep(1) in test_endpoint, returns or raises.

\* row written by _save_status
StatusRow(st) == st

\* mutant: every alert of the monitor is HIGH
CreateAlertSeverity_flat(st) == "HIGH"

\* severity chosen by _create_alert (network_monitor.py:248)
CreateAlertSeverity(st) == IF st.status = "down" THEN "HIGH" ELSE "MEDIUM"

\* mutant: the monitor's alert is stored as already resolved
MonitorAlertRow_resolved(rows, st) ==
    [id |-> Len(rows) + 1,
     target |-> st.target,
     alert_type |-> st.status,
     message |-> [text |-> "status abnormal", target |-> st.target_type, loss |-> 0],
     severity |-> CreateAlertSeverity(st),
     details_null |-> TRUE,
     details |-> [packet_loss |-> 0, latency |-> Finite(0), threshold |-> 0],
     resolved |-> TRUE]

\* row written by _create_alert: no details, resolved defaults to FALSE
MonitorAlertRow(rows, st) ==
    [id |-> Len(rows) + 1,
     target |-> st.target,
     alert_type |-> st.status,
     message |-> [text |-> "status abnormal", target |-> st.target_type, loss |-> 0],
     severity |-> CreateAlertSeverity(st),
     details_null |-> TRUE,
     details |-> [packet_loss |-> 0, latency |-> Finite(0), threshold |-> 0],
     resolved |-> FALSE]

\* first resumption of the task: read the endpoint list, enter the loop
GroupBegin(g) ==
    /\ pc = "cycle"
    /\ running = "none"
    /\ gpc[g] = "start"
    /\ IF Len(Endpoints[g]) = 0
         THEN /\ gpc' = [gpc EXCEPT ![g] = "done"]
              /\ UNCHANGED << running, gidx >>
         ELSE /\ gpc' = [gpc EXCEPT ![g] = "ping"]
              /\ gidx' = [gidx EXCEPT ![g] = 1]
              /\ running' = g
    /\ latencies' = [latencies EXCEPT ![g] = << >>]
    /\ packet_losses' = [packet_losses EXCEPT ![g] = << >>]
    /\ UNCHANGED << faults, fault_limit, ruleVars, driverVars, retry_count, status, gresults, storeVars,
                    dispatchVars >>

\* mutant: ping_target has no except clause, an exception of ping() leaves
\* test_endpoint and the group task
Ping_uncaught(g, out) ==
    /\ pc = "cycle"
    /\ running = g
    /\ gpc[g] = "ping"
    /\ IF out.kind = "reply"
         THEN UNCHANGED faults
         ELSE faults < fault_limit /\ faults' = faults + 1
    /\ IF out.kind = "error"
         THEN /\ gpc' = [gpc EXCEPT ![g] = "raised"]
              /\ UNCHANGED << latencies, packet_losses >>
         ELSE /\ latencies' = [latencies EXCEPT ![g] = Append(@, ping_target(out)[1])]
              /\ packet_losses' = [packet_losses EXCEPT ![g] = Append(@, ping_target(out)[2])]
              /\ gpc' = [gpc EXCEPT ![g] = "sleep"]
    /\ running' = "none"
    /\ UNCHANGED << fault_limit, ruleVars, driverVars, retry_count, gidx, status, gresults,
                    storeVars, dispatchVars >>

\* one pass of the sampling loop: ping_target, the two appends, then
\* await asyncio.sleep(1)
Ping(g, out) ==
    /\ pc = "cycle"
    /\ running = g
    /\ gpc[g] = "ping"
    /\ IF out.kind = "reply"
         THEN UNCHANGED faults
         ELSE faults < fault_limit /\ faults' = faults + 1
    /\ latencies' = [latencies EXCEPT ![g] = Append(@, ping_target(out)[1])]
    /\ packet_losses' = [packet_losses EXCEPT ![g] = Append(@, ping_target(out)[2])]
    /\ gpc' = [gpc EXCEPT ![g] = "sleep"]
    /\ running' = "none"
    /\ UNCHANGED << fault_limit, ruleVars, driverVars, retry_count, gidx, status, gresults,
                    storeVars, dispatchVars >>

\* mutant: the sampling loop is left after the first sample
Wake_once(g) ==
    /\ pc = "cycle"
    /\ running = "none"
    /\ gpc[g] = "sleep"
    /\ running' = g
    /\ gpc' = [gpc EXCEPT ![g] = "tested"]
    /\ UNCHANGED << faults, fault_limit, ruleVars, driverVars, retry_count, gidx, latencies, packet_losses,
                    status, gresults, storeVars, dispatchVars >>

\* the sleep is over: next pass of range(retry_count), or leave the loop
Wake(g) ==
    /\ pc = "cycle"
    /\ running = "none"
    /\ gpc[g] = "sleep"
    /\ running' = g
    /\ gpc' = [gpc EXCEPT ![g] =
                 IF Len(packet_losses[g]) < retry_count THEN "ping" ELSE "tested"]
    /\ UNCHANGED << faults, fault_limit, ruleVars, driverVars, retry_count, gidx, latencies, packet_losses,
                    status, gresults, storeVars, dispatchVars >>

\* test_endpoint returns its NetworkStatus; results.append(status)
Finish(g) ==
    /\ pc = "cycle"
    /\ running = g
    /\ gpc[g] = "tested"
    /\ LET st == NetworkStatus(Endpoints[g][gidx[g]], g, latencies[g],
                                packet_losses[g], retry_count)
       IN  /\ status' = [status EXCEPT ![g] = st]
           /\ gresults' = [gresults EXCEPT ![g] = Append(@, st)]
    /\ gpc' = [gpc EXCEPT ![g] = "save"]
    /\ UNCHANGED << faults, fault_limit, ruleVars, driverVars, retry_count, running, gidx, latencies,
                    packet_losses, storeVars, dispatchVars >>

\* mutant: the INSERT is never committed, the row is not in the store
SaveStatus_nocommit(g, ok) ==
    /\ pc = "cycle"
    /\ running = g
    /\ gpc[g] = "save"
    /\ ok
    /\ gpc' = [gpc EXCEPT ![g] = "alert"]
    /\ UNCHANGED << faults, fault_limit, ruleVars, driverVars, retry_count, running, gidx,
                    latencies, packet_losses, status, gresults, storeVars, dispatchVars >>

\* mutant: a write that starts while another task's data is in the table
\* replaces it
SaveStatus_overwrite(g, ok) ==
    /\ pc = "cycle"
    /\ running = g
    /\ gpc[g] = "save"
    /\ ok
    /\ store_status' = SetToBag({StatusRow(status[g])})
    /\ gpc' = [gpc EXCEPT ![g] = "alert"]
    /\ UNCHANGED << faults, fault_limit, ruleVars, driverVars, retry_count, running, gidx,
                    latencies, packet_losses, status, gresults, store_alerts, details_column,
                    apiVars, dispatchVars >>

\* self._save_status(status); a sqlite error propagates out of the task
SaveStatus(g, ok) ==
    /\ pc = "cycle"
    /\ running = g
    /\ gpc[g] = "save"
    /\ IF ok
         THEN /\ store_status' = store_status (+) SetToBag({StatusRow(status[g])})
              /\ gpc' = [gpc EXCEPT ![g] = "alert"]
              /\ UNCHANGED << running, faults >>
         ELSE /\ faults < fault_limit
              /\ faults' = faults + 1
              /\ gpc' = [gpc EXCEPT ![g] = "raised"]
              /\ running' = "none"
              /\ UNCHANGED store_status
    /\ UNCHANGED << fault_limit, ruleVars, driverVars, retry_count, gidx, latencies, packet_losses,
                    status, gresults, store_alerts, details_column, apiVars, dispatchVars >>

\* position after an endpoint is done: the next endpoint, or return results
AfterEndpoint(g) == IF gidx[g] < Len(Endpoints[g]) THEN "ping" ELSE "done"

\* "if status.status != 'operational': self._create_alert(...)", then the next
\* endpoint of the loop or the return
CreateAlert(g, ok) ==
    /\ pc = "cycle"
    /\ running = g
    /\ gpc[g] = "alert"
    /\ IF status[g].status # "operational" /\ ~ok
         THEN /\ faults < fault_limit
              /\ faults' = faults + 1
              /\ gpc' = [gpc EXCEPT ![g] = "raised"]
              /\ running' = "none"
              /\ UNCHANGED << store_alerts, gidx, latencies, packet_losses >>
         ELSE /\ UNCHANGED faults
              /\ store_alerts' =
                    IF status[g].status # "operational"
                      THEN Append(store_alerts, MonitorAlertRow(store_alerts, status[g]))
                      ELSE store_alerts
              /\ gpc' = [gpc EXCEPT ![g] = AfterEndpoint(g)]
              /\ IF AfterEndpoint(g) = "ping"
                   THEN /\ gidx' = [gidx EXCEPT ![g] = @ + 1]
                        /\ latencies' = [latencies EXCEPT ![g] = << >>]
                        /\ packet_losses' = [packet_losses EXCEPT ![g] = << >>]
                        /\ UNCHANGED running
                   ELSE /\ running' = "none"
                        /\ UNCHANGED << gidx, latencies, packet_losses >>
    /\ UNCHANGED << fault_limit, ruleVars, driverVars, retry_count, status, gresults, store_status,
                    details_column, apiVars, dispatchVars >>

\* ---- AlertSystem.send_alert_notifications and the channel senders ----------
\* mutant: MEDIUM alerts are mailed as well
SelectedChannels_mail(severity) ==
    IF severity \in {"MEDIUM", "HIGH", "CRITICAL"} THEN {"email", "webhook", "slack"}
    ELSE {"slack"}

\* the coroutines put into tasks (alert_system.py:310-322)
SelectedChannels(severity) ==
    IF severity \in {"HIGH", "CRITICAL"} THEN {"email", "webhook", "slack"}
    ELSE IF severity = "MEDIUM" THEN {"webhook", "slack"}
    ELSE {"slack"}

\* what can happen to a delivery: accepted, answered with a status other than
\* 200 (HTTP channels only), or an exception inside the try block
SendOutcomes(c) ==
    IF c = "email" THEN {"ok", "exception"} ELSE {"ok", "rejected", "exception"}

\* how a sender ends.  Without its section it returns at once.  The HTTP
\* senders use the name aiohttp, which module alert_system binds only when it
\* is run as a script (alert_system.py:450-452): otherwise the NameError is
\* raised inside the try block and logged by "except Exception".
SenderResult(c, secs, bound, out) ==
    IF c \notin secs THEN "skipped"
    ELSE IF c # "email" /\ ~bound THEN "nameerror"
    ELSE IF out = "ok" THEN "sent"
    ELSE IF out = "rejected" THEN "rejected"
    ELSE "error"

Completed == {"skipped", "sent", "rejected", "error", "nameerror"}
FailedStates == {"rejected", "error", "nameerror"}

\* mutant: the gather is not awaited
GatherDone_noawait(t) == TRUE

\* await asyncio.gather(*tasks, return_exceptions=True) resumes the caller
\* when every task has finished
GatherDone(t) == \A c \in Channels : t[c] # "pending"

\* send_alert_notifications(alert) up to the gather: the tasks are created
StartDispatch(alert) ==
    /\ dispatch_alert' = alert
    /\ task' = [c \in Channels |->
                  IF c \in SelectedChannels(alert.severity) THEN "pending" ELSE "none"]
    /\ dispatch_state' = "running"
    /\ UNCHANGED << sections, aiohttp_bound >>

\* one channel sender runs to its end
ChannelSend(c, out) ==
    /\ dispatch_state = "running"
    /\ task[c] = "pending"
    /\ task' = [task EXCEPT ![c] = SenderResult(c, sections, aiohttp_bound, out)]
    /\ UNCHANGED << faults, fault_limit, ruleVars, driverVars, groupVars, storeVars, sections,
                    aiohttp_bound, dispatch_alert, dispatch_state >>

\* the gather completes and send_alert_notifications returns
GatherReturn ==
    /\ dispatch_state = "running"
    /\ GatherDone(task)
    /\ dispatch_state' = "returned"
    /\ UNCHANGED << faults, fault_limit, ruleVars, driverVars, groupVars, storeVars, sections,
                    aiohttp_bound, dispatch_alert, task >>

\* send_alert_notifications called directly (alert_system.py:443)
SendAlertNotifications(alert) ==
    /\ pc = "idle"
    /\ dispatch_state \in {"idle", "returned"}
    /\ StartDispatch(alert)
    /\ UNCHANGED << faults, fault_limit, ruleVars, driverVars, groupVars, storeVars >>

\* alerts of every severity, as the rule engine builds them
DispatchInputs ==
    {NewAlert([DefaultRules[1] EXCEPT !.severity = sev], StatusData("8.8.8.8", "cloud", Pct(FullLoss))) :
        sev \in Severities}

InitDispatch ==
    /\ InitCommon
    /\ mode = "api"
    /\ pc = "idle"
    /\ retry_count = 1
    /\ fault_limit = 0
    /\ gpc = [g \in Groups |-> "idle"]
    /\ details_column = TRUE
    /\ sections \in SUBSET Channels
    /\ aiohttp_bound \in BOOLEAN

Dispatch == \E a \in DispatchInputs : SendAlertNotifications(a)

Send == \E c \in Channels : \E out \in SendOutcomes(c) : ChannelSend(c, out)

NextDispatch == Dispatch \/ Send \/ GatherReturn

SpecDispatch == InitDispatch /\ [][NextDispatch]_vars

\* ---- NetworkMonitor.run_monitoring_cycle -----------------------------------------
Finished(gp) == \A g \in Groups : gp[g] \in {"done", "raised"}

\* mutant: the loop stops at the first task that raised
RECURSIVE CollectFrom_break(_, _, _, _)
CollectFrom_break(gp, gr, i, acc) ==
    IF i > Len(GroupOrder) \/ gp[GroupOrder[i]] = "raised" THEN acc
    ELSE CollectFrom_break(gp, gr, i + 1, acc \o gr[GroupOrder[i]])

\* the loop over the gather results (network_monitor.py:281-286): a task that
\* raised is logged, the list of any other is appended
RECURSIVE CollectFrom(_, _, _, _)
CollectFrom(gp, gr, i, acc) ==
    IF i > Len(GroupOrder) THEN acc
    ELSE CollectFrom(gp, gr, i + 1,
                     IF gp[GroupOrder[i]] = "raised" THEN acc
                     ELSE acc \o gr[GroupOrder[i]])

CollectResults(gp, gr) == CollectFrom(gp, gr, 1, << >>)

\* the three coroutines are created and handed to asyncio.gather
CycleStart ==
    /\ cycles' = cycles + 1
    /\ gpc' = [g \in Groups |-> "start"]
    /\ gidx' = [g \in Groups |-> 0]
    /\ latencies' = [g \in Groups |-> << >>]
    /\ packet_losses' = [g \in Groups |-> << >>]
    /\ status' = [g \in Groups |-> NoRecord]
    /\ gresults' = [g \in Groups |-> << >>]
    /\ results' = << >>
    /\ pc' = "cycle"
    /\ UNCHANGED << retry_count, running >>

\* the gather is complete: all_results is built and returned
CycleReturn ==
    /\ pc = "cycle"
    /\ running = "none"
    /\ Finished(gpc)
    /\ results' = CollectResults(gpc, gresults)
    /\ IF mode = "single"
         THEN pc' = "process" /\ ridx' = 1
         ELSE pc' = "interval" /\ UNCHANGED ridx
    /\ UNCHANGED << faults, fault_limit, ruleVars, mode, sys_running, mon_running, cycles, aidx, groupVars,
                    storeVars, dispatchVars >>

\* ---- NetworkMonitoringSystem.run_single_cycle (main.py:60-79) ------------------
RunSingleCycle ==
    /\ mode = "single"
    /\ pc = "boot"
    /\ CycleStart
    /\ UNCHANGED << faults, fault_limit, ruleVars, mode, sys_running, mon_running, ridx, aidx, storeVars,
                    dispatchVars >>

\* the dict built from a result at main.py:67-72
DictOf(result) ==
    [target |-> result.target, target_type |-> result.target_type,
     packet_loss |-> result.packet_loss, latency |-> result.latency]

\* mutant: save_alert stores every alert as CRITICAL
RuleAlertRow_escalated(rows, alert) ==
    [id |-> Len(rows) + 1,
     target |-> alert.target,
     alert_type |-> alert.rule_name,
     message |-> alert.message,
     severity |-> "CRITICAL",
     details_null |-> FALSE,
     details |-> alert.details,
     resolved |-> FALSE]

\* row written by save_alert; the id is the row id sqlite assigns
RuleAlertRow(rows, alert) ==
    [id |-> Len(rows) + 1,
     target |-> alert.target,
     alert_type |-> alert.rule_name,
     message |-> alert.message,
     severity |-> alert.severity,
     details_null |-> FALSE,
     details |-> alert.details,
     resolved |-> FALSE]

\* "for result in results": the rules are evaluated against the next result
EvalRecord ==
    /\ pc = "process"
    /\ ridx <= Len(results)
    /\ status_data' = DictOf(results[ridx])
    /\ alerts' = check_alert_conditions(alert_rules, DictOf(results[ridx]))
    /\ calls' = calls + 1
    /\ streak' = IF calls > 0 /\ DictOf(results[ridx]) = status_data THEN streak + 1 ELSE 1
    /\ aidx' = 1
    /\ pc' = "evaluated"
    /\ UNCHANGED << faults, fault_limit, alert_rules, mutations, eval_pass, mode, sys_running, mon_running, cycles,
                    results, ridx, groupVars, storeVars, dispatchVars >>

\* mutant: an alert equal to a stored one is not inserted again
SaveAlert_dedup(ok) ==
    /\ pc = "evaluated"
    /\ aidx <= Len(alerts)
    /\ ok
    /\ details_column
    /\ store_alerts' =
          IF \E r \in 1..Len(store_alerts) :
                /\ store_alerts[r].alert_type = alerts[aidx].rule_name
                /\ store_alerts[r].target = alerts[aidx].target
                /\ store_alerts[r].details = alerts[aidx].details
            THEN store_alerts
            ELSE Append(store_alerts, RuleAlertRow(store_alerts, alerts[aidx]))
    /\ pc' = "saved"
    /\ UNCHANGED << faults, fault_limit, ruleVars, mode, sys_running, mon_running, cycles, results,
                    ridx, aidx, groupVars, store_status, details_column, apiVars, dispatchVars >>

\* mutant: save_alert catches the sqlite error and returns
SaveAlert_swallow(ok) ==
    /\ pc = "evaluated"
    /\ aidx <= Len(alerts)
    /\ IF ok /\ details_column
         THEN /\ store_alerts' = Append(store_alerts, RuleAlertRow(store_alerts, alerts[aidx]))
              /\ UNCHANGED faults
         ELSE /\ details_column => faults < fault_limit
              /\ faults' = IF details_column THEN faults + 1 ELSE faults
              /\ UNCHANGED store_alerts
    /\ pc' = "saved"
    /\ UNCHANGED << fault_limit, ruleVars, mode, sys_running, mon_running, cycles, results, ridx,
                    aidx, groupVars, store_status, details_column, apiVars, dispatchVars >>

\* "for alert in alerts": save_alert(alert).  The INSERT names the column
\* details, which only the migration script adds; a sqlite error propagates
\* out of run_single_cycle to run(), which prints it and exits.
SaveAlert(ok) ==
    /\ pc = "evaluated"
    /\ aidx <= Len(alerts)
    /\ IF ok /\ details_column
         THEN /\ store_alerts' = Append(store_alerts, RuleAlertRow(store_alerts, alerts[aidx]))
              /\ pc' = "saved"
              /\ UNCHANGED faults
         ELSE /\ details_column => faults < fault_limit
              /\ faults' = IF details_column THEN faults + 1 ELSE faults
              /\ pc' = "failed"
              /\ UNCHANGED store_alerts
    /\ UNCHANGED << fault_limit, ruleVars, mode, sys_running, mon_running, cycles, results, ridx,
                    aidx, groupVars, store_status, details_column, apiVars, dispatchVars >>

\* await send_alert_notifications(alert)
Notify ==
    /\ pc = "saved"
    /\ StartDispatch(alerts[aidx])
    /\ pc' = "notifying"
    /\ UNCHANGED << faults, fault_limit, ruleVars, mode, sys_running, mon_running, cycles, results, ridx,
                    aidx, groupVars, storeVars >>

\* the dispatch has returned: print, next alert
AfterNotify ==
    /\ pc = "notifying"
    /\ dispatch_state = "returned"
    /\ dispatch_state' = "idle"
    /\ aidx' = aidx + 1
    /\ pc' = "evaluated"
    /\ UNCHANGED << faults, fault_limit, ruleVars, mode, sys_running, mon_running, cycles, results, ridx,
                    groupVars, storeVars, sections, aiohttp_bound, dispatch_alert, task >>

\* the alerts of this result are exhausted: next result
NextRecord ==
    /\ pc = "evaluated"
    /\ mode = "single"
    /\ aidx > Len(alerts)
    /\ ridx' = ridx + 1
    /\ pc' = "process"
    /\ UNCHANGED << faults, fault_limit, ruleVars, mode, sys_running, mon_running, cycles, results, aidx,
                    groupVars, storeVars, dispatchVars >>

\* "return results"
SingleReturn ==
    /\ pc = "process"
    /\ ridx > Len(results)
    /\ pc' = "returned"
    /\ UNCHANGED << faults, fault_limit, ruleVars, mode, sys_running, mon_running, cycles, results, ridx,
                    aidx, groupVars, storeVars, dispatchVars >>

\* ---- continuous mode: main.py:40-58 and network_monitor.py:291-309 -------------
\* NetworkMonitoringSystem.start_monitoring: self.is_running = True
SysStart ==
    /\ mode = "monitor"
    /\ pc = "boot"
    /\ sys_running' = TRUE
    /\ pc' = "sys_started"
    /\ UNCHANGED << faults, fault_limit, ruleVars, mode, mon_running, cycles, results, ridx, aidx,
                    groupVars, storeVars, dispatchVars >>

\* NetworkMonitor.start_monitoring: self.is_running = True
MonStart ==
    /\ pc = "sys_started"
    /\ mon_running' = TRUE
    /\ pc' = "loop_top"
    /\ UNCHANGED << faults, fault_limit, ruleVars, mode, sys_running, cycles, results, ridx, aidx,
                    groupVars, storeVars, dispatchVars >>

\* "while self.is_running:" with the flag set: the next cycle starts
LoopEnter ==
    /\ pc = "loop_top"
    /\ mon_running
    /\ cycles < MaxCycles
    /\ CycleStart
    /\ UNCHANGED << faults, fault_limit, ruleVars, mode, sys_running, mon_running, ridx, aidx, storeVars,
                    dispatchVars >>

\* "while self.is_running:" with the flag cleared: the loop ends
LoopExit ==
    /\ pc = "loop_top"
    /\ ~mon_running
    /\ pc' = "loop_exit"
    /\ UNCHANGED << faults, fault_limit, ruleVars, mode, sys_running, mon_running, cycles, results, ridx,
                    aidx, groupVars, storeVars, dispatchVars >>

\* await asyncio.sleep(interval) is over
IntervalWake ==
    /\ pc = "interval"
    /\ pc' = "loop_top"
    /\ UNCHANGED << faults, fault_limit, ruleVars, mode, sys_running, mon_running, cycles, results, ridx,
                    aidx, groupVars, storeVars, dispatchVars >>

\* mutant: no handler, the exception ends the loop
OnException_exit(m) == IF m = "monitor" THEN "loop_exit" ELSE "failed"

\* where the driver goes when the try block raises an Exception
\* (network_monitor.py:302-304: log, then asyncio.sleep(10))
OnException(m) == IF m = "monitor" THEN "cooldown" ELSE "failed"

\* an unexpected exception in run_monitoring_cycle outside the gathered tasks,
\* or in the interval sleep
TryRaises ==
    /\ \/ pc = "cycle" /\ running = "none" /\ Finished(gpc)
       \/ pc = "interval"
    /\ faults < fault_limit
    /\ faults' = faults + 1
    /\ pc' = OnException(mode)
    /\ UNCHANGED << fault_limit, ruleVars, mode, sys_running, mon_running, cycles, results, ridx,
                    aidx, groupVars, storeVars, dispatchVars >>

\* the 10-second cooldown is over
CooldownWake ==
    /\ pc = "cooldown"
    /\ pc' = "loop_top"
    /\ UNCHANGED << faults, fault_limit, ruleVars, mode, sys_running, mon_running, cycles, results, ridx,
                    aidx, groupVars, storeVars, dispatchVars >>

\* mutant: stopping cancels the cycle in progress
AfterStop_cancel(p) == IF p = "cycle" THEN "loop_exit" ELSE p

\* position of the driver after stop_monitoring ran: it only clears the flag
AfterStop(p) == p

\* SIGINT / SIGTERM: _signal_handler -> stop() -> monitor.stop_monitoring()
Signal ==
    /\ IF sys_running
         THEN /\ sys_running' = FALSE
              /\ mon_running' = FALSE
              /\ pc' = AfterStop(pc)
         ELSE UNCHANGED << sys_running, mon_running, pc >>
    /\ UNCHANGED << faults, fault_limit, ruleVars, mode, cycles, results, ridx, aidx, groupVars, storeVars,
                    dispatchVars >>

\* "finally: self.stop()" of NetworkMonitoringSystem.start_monitoring
FinallyStop ==
    /\ pc = "loop_exit"
    /\ pc' = "stopped"
    /\ sys_running' = FALSE
    /\ mon_running' = IF sys_running THEN FALSE ELSE mon_running
    /\ UNCHANGED << faults, fault_limit, ruleVars, mode, cycles, results, ridx, aidx, groupVars, storeVars,
                    dispatchVars >>

\* main.py imports alert_system as a module: aiohttp is not bound in it
InitSystem ==
    /\ InitCommon
    /\ pc = "boot"
    /\ retry_count \in 1..CycleRetry
    /\ fault_limit = MaxFaults
    /\ gpc = [g \in Groups |-> "idle"]
    /\ aiohttp_bound = FALSE

CycleOutcomes == PingOutcomes({150})

GroupStep ==
    \E g \in Groups :
        \/ GroupBegin(g)
        \/ \E out \in CycleOutcomes : Ping(g, out)
        \/ Wake(g)
        \/ Finish(g)
        \/ \E ok \in BOOLEAN : SaveStatus(g, ok)
        \/ \E ok \in BOOLEAN : CreateAlert(g, ok)

\* ---- python main.py --mode single ------------------------------------------------
InitSingle ==
    /\ InitSystem
    /\ mode = "single"
    /\ details_column \in BOOLEAN
    /\ sections \in {{}, Channels}

NextSingle ==
    \/ RunSingleCycle
    \/ GroupStep
    \/ CycleReturn
    \/ TryRaises
    \/ EvalRecord
    \/ \E ok \in BOOLEAN : SaveAlert(ok)
    \/ Notify
    \/ Send
    \/ GatherReturn
    \/ AfterNotify
    \/ NextRecord
    \/ SingleReturn

SpecSingle == InitSingle /\ [][NextSingle]_vars

\* ---- python main.py --mode monitor -----------------------------------------------
\* the continuous driver never touches the alert system: one configuration of
\* it is enough
InitMonitor ==
    /\ InitSystem
    /\ mode = "monitor"
    /\ details_column = TRUE
    /\ sections = Channels

NextMonitor ==
    \/ SysStart
    \/ MonStart
    \/ LoopEnter
    \/ GroupStep
    \/ CycleReturn
    \/ TryRaises
    \/ IntervalWake
    \/ CooldownWake
    \/ LoopExit
    \/ FinallyStop
    \/ Signal

SpecMonitor == InitMonitor /\ [][NextMonitor]_vars

\* ---- one group task on its own: test_endpoint over the group's endpoints -------
ProbeOutcomes == PingOutcomes({150})

InitProbe ==
    /\ InitCommon
    /\ mode = "probe"
    /\ pc = "cycle"
    /\ retry_count \in 1..MaxRetry
    /\ fault_limit = MaxRetry * Len(Endpoints["cable"]) + 1
    /\ gpc \in {gp \in [Groups -> {"idle", "start"}] :
                  Cardinality({g \in Groups : gp[g] = "start"}) = 1}
    /\ details_column = TRUE
    /\ sections = {}
    /\ aiohttp_bound = FALSE

NextProbe ==
    \E g \in Groups :
        \/ GroupBegin(g)
        \/ \E out \in ProbeOutcomes : Ping(g, out)
        \/ Wake(g)
        \/ Finish(g)
        \/ \E ok \in BOOLEAN : SaveStatus(g, ok)
        \/ \E ok \in BOOLEAN : CreateAlert(g, ok)

SpecProbe == InitProbe /\ [][NextProbe]_vars

InitRules ==
    /\ InitCommon
    /\ mode = "api"
    /\ pc = "idle"
    /\ retry_count = 1
    /\ fault_limit = 0
    /\ gpc = [g \in Groups |-> "idle"]
    /\ details_column = TRUE
    /\ sections = {}
    /\ aiohttp_bound = FALSE

Evaluate ==
    \E tt \in TargetTypes : \E loss \in LossInputs(alert_rules) :
        CheckAlertConditions(StatusData(Endpoints[tt][1], tt, loss))

AddRule == \E rule \in AddableRules : AddAlertRule(rule)

RemoveRule ==
    \E n \in RuleNames(alert_rules) \cup {"No Such Rule"} : RemoveAlertRule(n)

UpdateRule ==
    \E n \in RuleNames(alert_rules) \cup {"No Such Rule"} :
        \E kwargs \in Patches : UpdateAlertRule(n, kwargs)

NextRules == Evaluate \/ AddRule \/ RemoveRule \/ UpdateRule

SpecRules == InitRules /\ [][NextRules]_vars

\* ---- the alerts table and the operations on it -----------------------------------
\* columns of the alerts table: CREATE TABLE at network_monitor.py:87-98, plus
\* details when migrate_add_details_column.py has run
AlertsColumns(dc) ==
    {"id", "timestamp", "target", "alert_type", "message", "severity", "resolved",
     "created_at"} \cup (IF dc THEN {"details"} ELSE {})

\* "WHERE timestamp > since": timestamps grow with the row ids, so the rows of
\* a window are the rows from some row on
WindowRows(rows, first) == SubSeq(rows, first, Len(rows))

\* UPDATE alerts SET resolved = TRUE, resolved_at = CURRENT_TIMESTAMP WHERE id = ?
\* sqlite rejects the statement when it names a column the table does not have
resolve_alert(rows, cols, alert_id) ==
    IF "resolved_at" \notin cols
      THEN [raised |-> TRUE, rows |-> rows]
      ELSE [raised |-> FALSE,
            rows |-> [i \in 1..Len(rows) |->
                        IF rows[i].id = alert_id
                          THEN [f \in DOMAIN rows[i] \cup {"resolved_at"} |->
                                  IF f = "resolved" THEN TRUE
                                  ELSE IF f = "resolved_at" THEN "CURRENT_TIMESTAMP"
                                  ELSE rows[i][f]]
                          ELSE rows[i]]]

\* SELECT severity, COUNT(*) ... GROUP BY severity, as a dict
SeverityStats(rows) ==
    [sev \in {rows[i].severity : i \in 1..Len(rows)} |->
        Cardinality({i \in 1..Len(rows) : rows[i].severity = sev})]

\* SELECT target_type, COUNT(*) ... GROUP BY target_type, as a dict
TypeStats(rows) ==
    [tt \in {rows[i].target_type : i \in 1..Len(rows)} |->
        Cardinality({i \in 1..Len(rows) : rows[i].target_type = tt})]

\* sum(d.values())
RECURSIVE SumValues(_, _)
SumValues(d, keys) ==
    IF keys = {} THEN 0
    ELSE LET k == CHOOSE k \in keys : TRUE
         IN  d[k] + SumValues(d, keys \ {k})

\* get_alert_statistics over the rows of the window: the three queries in
\* order, then the dict
get_alert_statistics(rows, cols) ==
    LET severity_stats == SeverityStats(rows)
    IN  IF "target_type" \notin cols
          THEN [raised |-> TRUE, value |-> NoStats]
          ELSE LET type_stats == TypeStats(rows)
                   resolved_count == Cardinality({i \in 1..Len(rows) : rows[i].resolved})
                   total == SumValues(severity_stats, DOMAIN severity_stats)
               IN  [raised |-> FALSE,
                    value |-> [total_alerts |-> total,
                               resolved_alerts |-> resolved_count,
                               active_alerts |-> total - resolved_count,
                               severity_distribution |-> severity_stats,
                               type_distribution |-> type_stats]]

RECURSIVE Reverse(_)
Reverse(q) == IF q = << >> THEN << >> ELSE Append(Reverse(Tail(q)), Head(q))

\* get_active_alerts over the rows of the window: the unresolved rows, newest
\* first; the SELECT names the column details
get_active_alerts(rows, cols) ==
    IF "details" \notin cols
      THEN [raised |-> TRUE, value |-> << >>]
      ELSE LET active == SelectSeq(rows, LAMBDA r : ~r.resolved)
           IN  [raised |-> FALSE,
                value |-> Reverse([i \in 1..Len(active) |-> active[i].id])]

\* alert_system.resolve_alert(alert_id), called by an operator
ResolveAlert(alert_id) ==
    LET r == resolve_alert(store_alerts, AlertsColumns(details_column), alert_id)
    IN  /\ store_alerts' = r.rows
        /\ api_call' = [op |-> "resolve_alert", arg |-> alert_id, raised |-> r.raised]
        /\ UNCHANGED << faults, fault_limit, ruleVars, driverVars, groupVars, store_status,
                        details_column, stats, active_alerts, dispatchVars >>

\* alert_system.get_alert_statistics(hours) (main.py:118, run_example.py:122)
GetAlertStatistics(first) ==
    LET r == get_alert_statistics(WindowRows(store_alerts, first),
                                  AlertsColumns(details_column))
    IN  /\ api_call' = [op |-> "get_alert_statistics", arg |-> first, raised |-> r.raised]
        /\ stats' = IF r.raised THEN stats ELSE r.value
        /\ UNCHANGED << faults, fault_limit, ruleVars, driverVars, groupVars, store_status,
                        store_alerts, details_column, active_alerts, dispatchVars >>

\* alert_system.get_active_alerts(hours) (main.py:103)
GetActiveAlerts(first) ==
    LET r == get_active_alerts(WindowRows(store_alerts, first),
                               AlertsColumns(details_column))
    IN  /\ api_call' = [op |-> "get_active_alerts", arg |-> first, raised |-> r.raised]
        /\ active_alerts' = IF r.raised THEN active_alerts ELSE r.value
        /\ UNCHANGED << faults, fault_limit, ruleVars, driverVars, groupVars, store_status,
                        store_alerts, details_column, stats, dispatchVars >>

\* the loop of run_example.py:108-118 and alert_system.py:434-443: the rules
\* are evaluated against the next status dict; its alerts are then saved and
\* dispatched one by one
DemoEvaluate(sd) ==
    /\ pc = "idle" \/ (pc = "evaluated" /\ aidx > Len(alerts))
    /\ calls < MaxCalls
    /\ status_data' = sd
    /\ alerts' = check_alert_conditions(alert_rules, sd)
    /\ calls' = calls + 1
    /\ streak' = IF pc = "evaluated" /\ sd = status_data THEN streak + 1 ELSE 1
    /\ aidx' = 1
    /\ pc' = "evaluated"
    /\ UNCHANGED << faults, fault_limit, alert_rules, mutations, eval_pass, mode, sys_running, mon_running,
                    cycles, results, ridx, groupVars, storeVars, dispatchVars >>

\* a monitor process on the same database writes its own alert for a record
\* that is not operational (network_monitor.py:173-175)
MonitorCreateAlert(st) ==
    /\ st.status # "operational"
    /\ Len(store_alerts) < MaxRows
    /\ store_alerts' = Append(store_alerts, MonitorAlertRow(store_alerts, st))
    /\ UNCHANGED << faults, fault_limit, ruleVars, driverVars, groupVars, store_status,
                    details_column, apiVars, dispatchVars >>

\* the status dicts of the demonstration: scenario A, a total outage, no loss
DemoInputs ==
    { StatusData("203.208.60.1", "cable", Pct(25)),
      StatusData("8.8.8.8", "cloud", Pct(FullLoss)),
      StatusData("72.52.94.1", "isp", 0) }

\* records of one probe each, built by test_endpoint
MonitorRecords ==
    { NetworkStatus("203.208.60.1", "cable", << ping_target(out)[1] >>,
                    << ping_target(out)[2] >>, 1) : out \in PingOutcomes({150}) }

InitStore ==
    /\ InitCommon
    /\ mode = "api"
    /\ pc = "idle"
    /\ retry_count = 1
    /\ fault_limit = 0
    /\ gpc = [g \in Groups |-> "idle"]
    /\ details_column \in BOOLEAN
    /\ sections = {}
    /\ aiohttp_bound = FALSE

Evaluation == \E sd \in DemoInputs : DemoEvaluate(sd)

Save == Len(store_alerts) < MaxRows /\ \E ok \in BOOLEAN : SaveAlert(ok)

MonitorWrite == \E st \in MonitorRecords : MonitorCreateAlert(st)

Resolve == \E id \in 1..(Len(store_alerts) + 1) : ResolveAlert(id)

Statistics == \E first \in 1..(Len(store_alerts) + 1) : GetAlertStatistics(first)

ActiveAlerts == \E first \in 1..(Len(store_alerts) + 1) : GetActiveAlerts(first)

NextStore ==
    \/ Evaluation
    \/ Save
    \/ Notify
    \/ Send
    \/ GatherReturn
    \/ AfterNotify
    \/ MonitorWrite
    \/ Resolve
    \/ Statistics
    \/ ActiveAlerts

SpecStore == InitStore /\ [][NextStore]_vars

\* ---- check_alert_conditions and the rule-set mutators called from two threads ----
\* AlertSystem has no lock and takes no copy.  "for rule in self.alert_rules"
\* reads the attribute once and walks that list object by index:
\*   eval_pass.rules  the contents of the list object being walked
\*   eval_pass.alias  that object is still the one self.alert_rules names
\*   eval_pass.map    for each of its rules, the index of the same rule object
\*                    in self.alert_rules (0 when it is no longer there)
\*   eval_pass.start  self.alert_rules as it was when the pass started
PassBegin(sd) ==
    /\ pc \in {"idle", "evaluated"}
    /\ calls < MaxCalls
    /\ eval_pass' = [active |-> TRUE, sd |-> sd, rules |-> alert_rules,
                     map |-> [i \in 1..Len(alert_rules) |-> i], alias |-> TRUE,
                     idx |-> 1, acc |-> << >>, start |-> alert_rules,
                     same |-> (pc = "evaluated" /\ sd = status_data)]
    /\ pc' = "evaluating"
    /\ UNCHANGED << faults, fault_limit, alert_rules, status_data, alerts, mutations, calls,
                    streak, mode, sys_running, mon_running, cycles, results, ridx, aidx,
                    groupVars, storeVars, dispatchVars >>

\* one iteration of the loop, on the rule the iterator yields
PassStep ==
    /\ pc = "evaluating"
    /\ eval_pass.idx <= Len(eval_pass.rules)
    /\ eval_pass' = [eval_pass EXCEPT
                        !.acc = CheckRule(eval_pass.rules[eval_pass.idx], eval_pass.sd, @),
                        !.idx = @ + 1]
    /\ UNCHANGED << faults, fault_limit, alert_rules, status_data, alerts, mutations, calls,
                    streak, driverVars, groupVars, storeVars, dispatchVars >>

\* the iterator is exhausted: "return alerts"
PassReturn ==
    /\ pc = "evaluating"
    /\ eval_pass.idx > Len(eval_pass.rules)
    /\ alerts' = eval_pass.acc
    /\ status_data' = eval_pass.sd
    /\ calls' = calls + 1
    /\ streak' = IF eval_pass.same /\ eval_pass.start = alert_rules THEN streak + 1 ELSE 1
    /\ eval_pass' = [eval_pass EXCEPT !.active = FALSE]
    /\ pc' = "evaluated"
    /\ UNCHANGED << faults, fault_limit, alert_rules, mutations, mode, sys_running, mon_running,
                    cycles, results, ridx, aidx, groupVars, storeVars, dispatchVars >>

\* self.alert_rules.append(rule): the list object grows in place
PassAfterAdd(p, rules, rule) ==
    IF p.active /\ p.alias
      THEN [p EXCEPT !.rules = Append(@, rule), !.map = Append(@, Len(rules) + 1)]
      ELSE p

\* self.alert_rules = [...]: the attribute names a new list of the rule
\* objects that are kept; the list being walked is left as it is
PassAfterRemove(p, rules, rule_name) ==
    IF p.active
      THEN [p EXCEPT
              !.alias = FALSE,
              !.map = [j \in 1..Len(p.map) |->
                         IF p.map[j] = 0 THEN 0
                         ELSE IF rules[p.map[j]].name = rule_name THEN 0
                         ELSE Cardinality({i \in 1..p.map[j] : rules[i].name # rule_name})]]
      ELSE p

\* setattr on the rule object: every list holding the object sees the change
PassAfterUpdate(p, rules, rule_name, kwargs) ==
    LET i == FirstNamed(rules, rule_name)
    IN  IF p.active /\ i # 0
          THEN [p EXCEPT
                  !.rules = [j \in 1..Len(p.rules) |->
                               IF p.map[j] = i THEN SetAttrs(p.rules[j], kwargs)
                               ELSE p.rules[j]]]
          ELSE p

\* a rule-set mutator called on another thread, possibly while a pass is
\* in progress
ConcurrentAdd(rule) ==
    /\ mutations < MaxMutations
    /\ alert_rules' = add_alert_rule(alert_rules, rule)
    /\ eval_pass' = PassAfterAdd(eval_pass, alert_rules, rule)
    /\ mutations' = mutations + 1
    /\ pc' = IF pc = "evaluated" THEN "idle" ELSE pc
    /\ UNCHANGED << faults, fault_limit, status_data, alerts, calls, streak, mode, sys_running,
                    mon_running, cycles, results, ridx, aidx, groupVars, storeVars,
                    dispatchVars >>

ConcurrentRemove(rule_name) ==
    /\ mutations < MaxMutations
    /\ alert_rules' = remove_alert_rule(alert_rules, rule_name)
    /\ eval_pass' = PassAfterRemove(eval_pass, alert_rules, rule_name)
    /\ mutations' = mutations + 1
    /\ pc' = IF pc = "evaluated" THEN "idle" ELSE pc
    /\ UNCHANGED << faults, fault_limit, status_data, alerts, calls, streak, mode, sys_running,
                    mon_running, cycles, results, ridx, aidx, groupVars, storeVars,
                    dispatchVars >>

ConcurrentUpdate(rule_name, kwargs) ==
    /\ mutations < MaxMutations
    /\ alert_rules' = update_alert_rule(alert_rules, rule_name, kwargs)
    /\ eval_pass' = PassAfterUpdate(eval_pass, alert_rules, rule_name, kwargs)
    /\ mutations' = mutations + 1
    /\ pc' = IF pc = "evaluated" THEN "idle" ELSE pc
    /\ UNCHANGED << faults, fault_limit, status_data, alerts, calls, streak, mode, sys_running,
                    mon_running, cycles, results, ridx, aidx, groupVars, storeVars,
                    dispatchVars >>

\* the status dicts evaluated while the rule set is being mutated
ThreadInputs ==
    { StatusData("203.208.60.1", "cable", Pct(25)),
      StatusData("72.52.94.1", "isp", Pct(FullLoss)) }

InitThreads ==
    /\ InitCommon
    /\ mode = "api"
    /\ pc = "idle"
    /\ retry_count = 1
    /\ fault_limit = 0
    /\ gpc = [g \in Groups |-> "idle"]
    /\ details_column = TRUE
    /\ sections = {}
    /\ aiohttp_bound = FALSE

BeginPass == \E sd \in ThreadInputs : PassBegin(sd)

AddDuringPass == \E rule \in AddableRules : ConcurrentAdd(rule)

RemoveDuringPass ==
    \E n \in RuleNames(alert_rules) \cup {"No Such Rule"} : ConcurrentRemove(n)

UpdateDuringPass ==
    \E n \in RuleNames(alert_rules) \cup {"No Such Rule"} :
        \E kwargs \in Patches : ConcurrentUpdate(n, kwargs)

NextThreads ==
    \/ BeginPass
    \/ PassStep
    \/ PassReturn
    \/ AddDuringPass
    \/ RemoveDuringPass
    \/ UpdateDuringPass

SpecThreads == InitThreads /\ [][NextThreads]_vars

\* ---- update_alert_rule on rule sets with and without a repeated name -----------
\* the rule set is the default one, or the default one after one
\* add_alert_rule call
InitUpdate ==
    /\ alert_rules \in {DefaultRules}
                         \cup {add_alert_rule(DefaultRules, rule) : rule \in AddableRules}
    /\ InitOthers
    /\ mode = "api"
    /\ pc = "idle"
    /\ retry_count = 1
    /\ fault_limit = 0
    /\ gpc = [g \in Groups |-> "idle"]
    /\ details_column = TRUE
    /\ sections = {}
    /\ aiohttp_bound = FALSE

UpdateFirstNamed ==
    \E n \in RuleNames(alert_rules) \cup {"No Such Rule"} :
        \E kwargs \in UpdateKwargs : UpdateAlertRule(n, kwargs)

\* the updated rule set is put to use
EvaluateUpdated == \E sd \in ThreadInputs : CheckAlertConditions(sd)

NextUpdate == UpdateFirstNamed \/ EvaluateUpdated

SpecUpdate == InitUpdate /\ [][NextUpdate]_vars

\* ---- C1 ------------------------------------------------------------------------
\* the rule fires on the record: enabled, target type matches, condition is
\* 'threshold' and the loss reaches the threshold
Fires(rule, sd) ==
    /\ rule.enabled
    /\ rule.target_type \in {"all", sd.target_type}
    /\ rule.condition = "threshold"
    /\ sd.packet_loss >= rule.threshold

FiringRules(rules, sd) == SelectSeq(rules, LAMBDA r : Fires(r, sd))

\* C1: after check_alert_conditions(record) the returned list has, in rule-list
\* order, exactly one alert per rule that is enabled, matches the record's
\* target type, has condition 'threshold' and whose threshold the record's
\* packet loss reaches; no other rule contributes an alert.
C1_AlertsAreExactlyTheFiringRules ==
    pc = "evaluated" =>
        LET firing == FiringRules(alert_rules, status_data)
        IN  /\ Len(alerts) = Len(firing)
            /\ \A i \in 1..Len(alerts) :
                  /\ alerts[i].rule_name = firing[i].name
                  /\ alerts[i].severity = firing[i].severity
                  /\ alerts[i].details.threshold = firing[i].threshold
                  /\ alerts[i].target = status_data.target
                  /\ alerts[i].target_type = status_data.target_type
                  /\ alerts[i].details.packet_loss = status_data.packet_loss

\* a rule set holding a disabled rule, a filtered-out rule, a rule below its
\* threshold and a rule of another condition kind, evaluated with two alerts out
C1_Witness ==
    /\ pc = "evaluated"
    /\ Len(alerts) >= 2
    /\ \E i \in 1..Len(alert_rules) :
          ~alert_rules[i].enabled \/ alert_rules[i].condition # "threshold"
    /\ \E i \in 1..Len(alert_rules) :
          alert_rules[i].target_type \notin {"all", status_data.target_type}
    /\ \E i \in 1..Len(alert_rules) :
          /\ alert_rules[i].enabled
          /\ alert_rules[i].target_type \in {"all", status_data.target_type}
          /\ alert_rules[i].condition = "threshold"
          /\ status_data.packet_loss < alert_rules[i].threshold

\* ---- C10 -----------------------------------------------------------------------
ScenarioA == StatusData("203.208.60.1", "cable", Pct(25))

\* C10: with the five default rules, the record {cable, packet_loss 25.0}
\* yields exactly 'High Packet Loss Alert' (MEDIUM) followed by 'Submarine
\* Cable System Anomaly' (HIGH), and nothing for the other three rules.
C10_ScenarioA ==
    (pc = "evaluated" /\ alert_rules = DefaultRules /\ status_data = ScenarioA) =>
        /\ Len(alerts) = 2
        /\ alerts[1].rule_name = "High Packet Loss Alert"
        /\ alerts[1].severity = "MEDIUM"
        /\ alerts[2].rule_name = "Submarine Cable System Anomaly"
        /\ alerts[2].severity = "HIGH"

C10_Witness ==
    pc = "evaluated" /\ alert_rules = DefaultRules /\ status_data = ScenarioA

\* ---- C5 ------------------------------------------------------------------------
\* the routing table of the dispatcher
Routing ==
    [LOW |-> {"slack"}, MEDIUM |-> {"webhook", "slack"},
     HIGH |-> {"email", "webhook", "slack"}, CRITICAL |-> {"email", "webhook", "slack"}]

Invoked == {c \in Channels : task[c] # "none"}

\* C5: send_alert_notifications(alert) invokes exactly the channel senders
\* selected by alert.severity (HIGH/CRITICAL: email, webhook, chat; MEDIUM:
\* webhook, chat; LOW: chat) and no other; by its return each has run.
C5_RoutingBySeverity ==
    dispatch_state # "idle" =>
        /\ Invoked = Routing[dispatch_alert.severity]
        /\ dispatch_state = "returned" =>
              {c \in Channels : task[c] \in Completed} = Routing[dispatch_alert.severity]

C5_Witness ==
    /\ dispatch_state = "returned"
    /\ dispatch_alert.severity = "MEDIUM"
    /\ task["email"] = "none"
    /\ task["webhook"] = "sent"
    /\ task["slack"] = "sent"

\* ---- C6 ------------------------------------------------------------------------
\* C6: when a channel sender of a dispatch has failed (exception or error
\* response), every other selected channel is still invoked and has run to
\* completion by the time send_alert_notifications returns, and the call
\* returns normally.
C6_ChannelFailureIsolated ==
    \A c \in Channels :
        task[c] \in FailedStates =>
            /\ dispatch_state \in {"running", "returned"}
            /\ \A d \in Routing[dispatch_alert.severity] \ {c} :
                  /\ task[d] \in Completed \cup {"pending"}
                  /\ dispatch_state = "returned" => task[d] \in Completed

\* the webhook sender failed and the e-mail and chat senders delivered
C6_Witness ==
    /\ dispatch_state = "returned"
    /\ task["webhook"] = "error"
    /\ task["email"] = "sent"
    /\ task["slack"] = "sent"

\* ---- C2 ------------------------------------------------------------------------
\* C2: for every StatusRecord built by test_endpoint, status is 'down' iff
\* packet_loss >= 100, 'degraded' iff 20 <= packet_loss < 100 and
\* 'operational' iff packet_loss < 20.
C2_StatusMatchesLoss ==
    \A g \in Groups : \A i \in 1..Len(gresults[g]) :
        LET r == gresults[g][i]
        IN  /\ r.status = "down" <=> r.packet_loss >= 100 * Scale
            /\ r.status = "degraded" <=>
                  (20 * Scale <= r.packet_loss /\ r.packet_loss < 100 * Scale)
            /\ r.status = "operational" <=> r.packet_loss < 20 * Scale

\* six samples, one of them lost: 16.7 % loss, still operational; and a
\* record that lost every sample
C2_Witness ==
    /\ \E g \in Groups : \E i \in 1..Len(gresults[g]) :
          /\ gresults[g][i].status = "operational"
          /\ gresults[g][i].packet_loss > 0
    /\ \E g \in Groups : \E i \in 1..Len(gresults[g]) :
          /\ gresults[g][i].status = "down"
          /\ gresults[g][i].details.retry_count > 1

\* ---- C3 ------------------------------------------------------------------------
\* number of results of the cycle that run_single_cycle has handed to
\* check_alert_conditions
EvaluatedCount ==
    IF pc \in {"evaluated", "saved", "notifying"} THEN ridx
    ELSE IF pc = "process" THEN ridx - 1
    ELSE IF pc = "returned" THEN Len(results)
    ELSE 0

WasEvaluated(rec) == \E i \in 1..EvaluatedCount : results[i] = rec

\* the claim as stated: when a group goes on to its next endpoint, the
\* previous record is persisted and the rules have been evaluated against it
C3_EvaluatedBeforeNextEndpoint ==
    \A g \in Groups :
        (gidx[g] >= 2 /\ gpc[g] \in {"ping", "sleep"}) =>
            /\ BagIn(gresults[g][gidx[g] - 1], store_status)
            /\ WasEvaluated(gresults[g][gidx[g] - 1])

\* C3 (amended): in single-cycle mode each completed record is persisted
\* before the next endpoint of its group is probed; the rules are evaluated
\* against a record only after the whole cycle has returned, record by record
\* in the order returned; and every resulting alert is persisted and after
\* that dispatched before the next alert is handled.
C3_PersistThenEvaluateAfterCycle ==
    /\ \A g \in Groups : \A i \in 1..(gidx[g] - 1) :
          BagIn(gresults[g][i], store_status)
    /\ EvaluatedCount > 0 =>
          /\ Finished(gpc)
          /\ \A i \in 1..EvaluatedCount : BagIn(results[i], store_status)
    /\ pc \in {"evaluated", "saved", "notifying"} =>
          /\ status_data.target = results[ridx].target
          /\ status_data.packet_loss = results[ridx].packet_loss
    /\ pc \in {"saved", "notifying"} =>
          /\ store_alerts # << >>
          /\ store_alerts[Len(store_alerts)].alert_type = alerts[aidx].rule_name
          /\ store_alerts[Len(store_alerts)].target = alerts[aidx].target
    /\ pc = "notifying" => dispatch_alert = alerts[aidx]
    /\ pc \in {"process", "evaluated", "saved"} => dispatch_state \in {"idle"}

\* the second alert of the second record is being dispatched
C3_Witness ==
    /\ pc = "notifying"
    /\ ridx = 2
    /\ aidx = 2
    /\ dispatch_state = "returned"
    /\ Len(results) = 4

\* ---- C4 ------------------------------------------------------------------------
\* the claim: when a cycle of the continuous driver is over, every rule that
\* fires on one of its records has an alert in the store
C4_RulesAppliedInMonitorMode ==
    (mode = "monitor" /\ pc = "interval") =>
        \A i \in 1..Len(results) : \A k \in 1..Len(alert_rules) :
            Fires(alert_rules[k], DictOf(results[i])) =>
                \E r \in 1..Len(store_alerts) :
                    /\ store_alerts[r].alert_type = alert_rules[k].name
                    /\ store_alerts[r].target = results[i].target

\* ---- C7 ------------------------------------------------------------------------
Part(g) == IF gpc[g] = "raised" THEN << >> ELSE gresults[g]

\* C7: when run_monitoring_cycle has returned, every group task has either
\* raised or gone through all its endpoints, and the returned list is the
\* concatenation, in the order cable, isp, cloud, of the lists of the groups
\* that did not raise.
C7_PartialResultsReturned ==
    pc \in {"process", "evaluated", "saved", "notifying", "returned"} =>
        /\ \A g \in Groups :
              \/ gpc[g] = "raised"
              \/ gpc[g] = "done" /\ Len(gresults[g]) = Len(Endpoints[g])
        /\ results = Part("cable") \o Part("isp") \o Part("cloud")

\* the isp task raised; the records of cable and cloud are returned
C7_Witness ==
    /\ pc = "process"
    /\ gpc["isp"] = "raised"
    /\ gpc["cable"] = "done"
    /\ gpc["cloud"] = "done"
    /\ Len(results) = Len(Endpoints["cable"]) + Len(Endpoints["cloud"])

\* ---- C8 ------------------------------------------------------------------------
\* C8: the running flag is read only at the top of the loop: clearing it
\* changes neither the driver's position nor any group task, a cycle is left
\* only when all its group tasks have finished, and the loop ends only from
\* the top of the loop.
C8_StopOnlyBetweenCycles ==
    /\ [][(mon_running /\ ~mon_running') =>
             (pc' = pc /\ UNCHANGED groupVars)]_vars
    /\ [][(pc = "cycle" /\ pc' # "cycle") =>
             (Finished(gpc) /\ running = "none")]_vars
    /\ [][(pc' = "loop_exit" /\ pc # "loop_exit") => pc = "loop_top"]_vars

\* the flag was cleared while the cycle was in flight (it is set whenever a
\* cycle starts), and all three groups went through all their endpoints
C8_Witness ==
    /\ pc = "cycle"
    /\ ~mon_running
    /\ \A g \in Groups : gpc[g] = "done" /\ Len(gresults[g]) = Len(Endpoints[g])

\* ---- C9 ------------------------------------------------------------------------
\* C9: an exception in the try block of the continuous driver sends it to the
\* cooldown and from there back to the top of the loop, where another cycle
\* starts if the flag is still set; the loop ends only at the top of the
\* loop with the flag cleared.
C9_ExceptionDoesNotEndLoop ==
    /\ [][(pc = "cycle" /\ pc' # "cycle") => pc' \in {"interval", "cooldown"}]_vars
    /\ [][(pc = "interval" /\ pc' # "interval") => pc' \in {"loop_top", "cooldown"}]_vars
    /\ [][(pc = "cooldown" /\ pc' # "cooldown") => pc' = "loop_top"]_vars
    /\ [][(pc = "loop_top" /\ mon_running /\ pc' # "loop_top") => pc' = "cycle"]_vars
    /\ [][(pc' = "loop_exit" /\ pc # "loop_exit") =>
             (pc = "loop_top" /\ ~mon_running)]_vars

\* a second cycle has started after the only fault so far, which was not a
\* lost probe or a failed write: the first cycle's try block raised
C9_Witness ==
    /\ pc = "cycle"
    /\ cycles = 2
    /\ mon_running
    /\ faults = 1
    /\ BagCardinality(store_status) =
          Len(Endpoints["cable"]) + Len(Endpoints["isp"]) + Len(Endpoints["cloud"])
    /\ \A r \in BagToSet(store_status) : r.status = "operational"

\* ---- C11 -----------------------------------------------------------------------
\* C11: with the default rules, every record whose packet_loss is 100.0 has
\* status 'down', and the list returned by its evaluation holds a 'Complete
\* Outage Alert' of severity HIGH, whatever the record's target_type.
C11_TotalLossIsDownAndOutage ==
    /\ \A g \in Groups : \A i \in 1..Len(gresults[g]) :
          gresults[g][i].packet_loss = 100 * Scale => gresults[g][i].status = "down"
    /\ (pc \in {"evaluated", "saved", "notifying"} /\ status_data.packet_loss = 100 * Scale) =>
          /\ results[ridx].status = "down"
          /\ status_data.target_type \in TargetTypes
          /\ \E i \in 1..Len(alerts) :
                /\ alerts[i].rule_name = "Complete Outage Alert"
                /\ alerts[i].severity = "HIGH"
                /\ alerts[i].target = status_data.target

\* the isp endpoint lost every probe and its record has been evaluated
C11_Witness ==
    /\ pc = "evaluated"
    /\ status_data.target_type = "isp"
    /\ status_data.packet_loss = 100 * Scale
    /\ results[ridx].status = "down"
    /\ Len(alerts) = 3

\* ---- C12 -----------------------------------------------------------------------
\* C12: a call of check_alert_conditions leaves the rule set (membership,
\* order, every field) and the store as they were, and a call with the record
\* of the call before it, the rule set not having changed in between, returns
\* the list that call returned.
C12_EvaluationIsPure ==
    [][calls' = calls + 1 =>
          /\ alert_rules' = alert_rules
          /\ UNCHANGED storeVars
          /\ (pc = "evaluated" /\ status_data' = status_data) => alerts' = alerts]_vars

\* the third call in a row with the same record: two alerts returned
C12_Witness ==
    /\ pc = "evaluated"
    /\ calls = 3
    /\ streak = 3
    /\ Len(alerts) = 2
    /\ mutations = 0

\* ---- C13 -----------------------------------------------------------------------
\* C13: every alert of an evaluation carries the severity configured on the
\* rule that fired; the row save_alert writes for it carries that severity,
\* and so does the alert handed to send_alert_notifications, up to the
\* dispatch's return.
C13_SeverityIsTheRulesSeverity ==
    /\ pc \in {"evaluated", "saved", "notifying"} =>
          \A i \in 1..Len(alerts) :
              \E k \in 1..Len(alert_rules) :
                  /\ alert_rules[k].name = alerts[i].rule_name
                  /\ Fires(alert_rules[k], status_data)
                  /\ alert_rules[k].severity = alerts[i].severity
    /\ pc \in {"saved", "notifying"} =>
          store_alerts[Len(store_alerts)].severity = alerts[aidx].severity
    /\ \A r \in 1..Len(store_alerts) :
          ~store_alerts[r].details_null =>
              \E k \in 1..Len(alert_rules) :
                  /\ alert_rules[k].name = store_alerts[r].alert_type
                  /\ alert_rules[k].severity = store_alerts[r].severity
    /\ pc = "notifying" => dispatch_alert.severity = alerts[aidx].severity

\* a HIGH alert has been stored after a MEDIUM one and its dispatch has
\* returned
C13_Witness ==
    /\ pc = "notifying"
    /\ dispatch_state = "returned"
    /\ alerts[aidx].severity = "HIGH"
    /\ dispatch_alert.severity = "HIGH"
    /\ store_alerts[Len(store_alerts)].severity = "HIGH"
    /\ \E r \in 1..Len(store_alerts) :
          ~store_alerts[r].details_null /\ store_alerts[r].severity = "MEDIUM"

\* ---- C14 -----------------------------------------------------------------------
\* the records the monitor has built in this run
RecordsBuilt == UNION {{gresults[g][i] : i \in 1..Len(gresults[g])} : g \in Groups}

\* C14: every row of the alerts table was created by the rule engine: it
\* names a configured rule, and that rule fires on a record of its target.
C14_EveryStoredAlertIsARuleAlert ==
    \A r \in 1..Len(store_alerts) :
        \E k \in 1..Len(alert_rules) :
            /\ alert_rules[k].name = store_alerts[r].alert_type
            /\ alert_rules[k].severity = store_alerts[r].severity
            /\ \E rec \in RecordsBuilt :
                  /\ rec.target = store_alerts[r].target
                  /\ Fires(alert_rules[k], DictOf(rec))

\* ---- C15 -----------------------------------------------------------------------
\* the row carries a resolved_at value
ResolvedAtSet(row) == "resolved_at" \in DOMAIN row

C16_ResolvedChangesOnlyByResolveAlert ==
    [][/\ Len(store_alerts') >= Len(store_alerts)
       /\ \A i \in 1..Len(store_alerts) :
             store_alerts'[i].resolved # store_alerts[i].resolved =>
                 /\ api_call'.op = "resolve_alert"
                 /\ api_call'.arg = store_alerts[i].id
                 /\ store_alerts'[i].resolved
                 /\ UNCHANGED << ruleVars, driverVars, dispatchVars >>
       /\ \A i \in (Len(store_alerts) + 1)..Len(store_alerts') :
             ~store_alerts'[i].resolved]_vars

\* a rule alert and a monitor alert are stored, a dispatch has returned, both
\* queries and resolve_alert(1) have been called: both rows are unresolved
C16_Witness ==
    /\ api_call.op = "resolve_alert"
    /\ api_call.arg = 1
    /\ Len(store_alerts) >= 2
    /\ \E r \in 1..Len(store_alerts) : store_alerts[r].details_null
    /\ ~store_alerts[1].details_null
    /\ \A r \in 1..Len(store_alerts) : ~store_alerts[r].resolved
    /\ active_alerts # << >>
    /\ pc = "notifying"
    /\ dispatch_state = "returned"

\* ---- C17 -----------------------------------------------------------------------
\* C17: get_alert_statistics returns, whatever the table holds and whatever
\* the window, a dict with total_alerts = resolved_alerts + active_alerts
\* whose severity_distribution and type_distribution each sum to total_alerts.
C17_StatisticsAddUp ==
    api_call.op = "get_alert_statistics" =>
        /\ ~api_call.raised
        /\ stats.total_alerts = stats.resolved_alerts + stats.active_alerts
        /\ SumValues(stats.severity_distribution, DOMAIN stats.severity_distribution)
              = stats.total_alerts
        /\ SumValues(stats.type_distribution, DOMAIN stats.type_distribution)
              = stats.total_alerts

\* ---- C18 -----------------------------------------------------------------------
\* rows save_alert wrote for the rule of that name on that target
RuleRows(name, target) ==
    {r \in 1..Len(store_alerts) :
        /\ ~store_alerts[r].details_null
        /\ store_alerts[r].alert_type = name
        /\ store_alerts[r].target = target}

\* C18: the row ids are the insertion numbers; every save_alert that returns
\* has appended one row with the next id, whatever the table already holds;
\* and when the same record has been evaluated n times in a row and all the
\* alerts saved, the table holds n rows for every rule that fires on it.
C18_NoDeduplication ==
    /\ [](\A r \in 1..Len(store_alerts) : store_alerts[r].id = r)
    /\ []((pc = "evaluated" /\ aidx > Len(alerts) /\ streak = calls) =>
             \A i \in 1..Len(alerts) :
                 Cardinality(RuleRows(alerts[i].rule_name, alerts[i].target)) = calls)
    /\ [][(pc = "evaluated" /\ pc' = "saved") =>
             /\ Len(store_alerts') = Len(store_alerts) + 1
             /\ SubSeq(store_alerts', 1, Len(store_alerts)) = store_alerts
             /\ store_alerts'[Len(store_alerts')].id = Len(store_alerts) + 1
             /\ store_alerts'[Len(store_alerts')].alert_type = alerts[aidx].rule_name]_vars

\* scenario A has been evaluated twice and its two alerts saved twice: rows 1
\* and 3 differ in their id only
C18_Witness ==
    /\ pc = "evaluated"
    /\ aidx > Len(alerts)
    /\ calls = 2
    /\ streak = 2
    /\ Len(alerts) = 2
    /\ Len(store_alerts) = 4
    /\ store_alerts[3] = [store_alerts[1] EXCEPT !.id = 3]

\* ---- C19 -----------------------------------------------------------------------
\* C19: every sample taken is (inf, 100.0) or (a finite time, 0.0); a group
\* task never raises while it is inside test_endpoint; and test_endpoint
\* ends by returning a record built from retry_count samples.
C19_ProbeFailureIsNeverRaised ==
    /\ [](\A g \in Groups : \A k \in 1..Len(latencies[g]) :
             \/ latencies[g][k].inf /\ packet_losses[g][k] = 100 * Scale
             \/ ~latencies[g][k].inf /\ packet_losses[g][k] = 0)
    /\ [][\A g \in Groups :
             gpc[g] \in {"ping", "sleep", "tested"} => gpc'[g] # "raised"]_vars
    /\ [][\A g \in Groups :
             (gpc[g] = "tested" /\ gpc'[g] # "tested") =>
                 /\ gpc'[g] = "save"
                 /\ gresults'[g] = Append(gresults[g], status'[g])
                 /\ Len(status'[g].details.packet_losses) = retry_count
                 /\ retry_count >= 1]_vars

\* test_endpoint has returned a record of three samples or more, answered and
\* failed ones among them, and one whose samples all failed
C19_Witness ==
    \E g \in Groups :
        /\ gpc[g] = "save"
        /\ Len(gresults[g]) = 2
        /\ retry_count >= 3
        /\ \A k \in 1..retry_count : gresults[g][1].details.packet_losses[k] = 100 * Scale
        /\ \E k \in 1..retry_count : status[g].details.packet_losses[k] = 100 * Scale
        /\ \E k \in 1..retry_count : status[g].details.packet_losses[k] = 0

\* ---- C20 -----------------------------------------------------------------------
\* number of failed samples of a record
FailedSamples(rec) ==
    Cardinality({k \in 1..Len(rec.details.packet_losses) :
                    rec.details.packet_losses[k] = 100 * Scale})

\* C20: for a record built from n = retry_count >= 1 samples of which f
\* failed, packet_loss = 100 * f / n, which lies in [0, 100]; latency is
\* infinite exactly when f >= 1, and finite exactly when packet_loss = 0.
C20_LossAndLatencyOfARecord ==
    \A g \in Groups : \A i \in 1..Len(gresults[g]) :
        LET rec == gresults[g][i]
            n == Len(rec.details.packet_losses)
            f == FailedSamples(rec)
        IN  /\ n = rec.details.retry_count
            /\ n >= 1
            /\ Len(rec.details.latencies) = n
            /\ rec.packet_loss * n = 100 * Scale * f
            /\ 0 <= rec.packet_loss /\ rec.packet_loss <= 100 * Scale
            /\ rec.latency.inf <=> f >= 1
            /\ ~rec.latency.inf <=> rec.packet_loss = 0

\* an 'operational' record and a 'degraded' record, both with infinite latency
C20_Witness ==
    \E g \in Groups :
        /\ Len(gresults[g]) = 2
        /\ gresults[g][1].status = "operational"
        /\ gresults[g][1].latency.inf
        /\ gresults[g][2].status = "degraded"
        /\ gresults[g][2].latency.inf
        /\ FailedSamples(gresults[g][2]) = 2

\* ---- C21 -----------------------------------------------------------------------
\* the sender got as far as the SMTP session or the HTTP POST
DeliveryAttempted(c) == task[c] \in {"sent", "rejected", "error"}

\* C21: a channel sender that has run made a delivery attempt if and only if
\* the configuration has its section; without the section it returned without
\* an attempt and without an error.
C21_AttemptIffSectionPresent ==
    \A c \in Channels :
        task[c] \in Completed =>
            /\ DeliveryAttempted(c) <=> c \in sections
            /\ c \notin sections => task[c] = "skipped"

\* ---- C22 -----------------------------------------------------------------------
\* C22: the list a check_alert_conditions pass returns is the evaluation of
\* its record against the rule set as it was when the pass started, whatever
\* add_alert_rule, remove_alert_rule or update_alert_rule call was made while
\* the pass was in progress.
C22_PassEvaluatesItsStartingRuleSet ==
    (pc = "evaluated" /\ eval_pass.start # << >>) =>
        alerts = check_alert_conditions(eval_pass.start, eval_pass.sd)


\* ---- C23 -----------------------------------------------------------------------
\* C23: whatever add_alert_rule, remove_alert_rule and update_alert_rule calls
\* were made on the five default rules, no two rules of the set have the
\* same name.
C23_RuleNamesAreUnique ==
    \A i, j \in 1..Len(alert_rules) :
        alert_rules[i].name = alert_rules[j].name => i = j


\* ---- C24 -----------------------------------------------------------------------
\* the group task g is inside its loop over the endpoints
InLoop(g) == gpc[g] \in {"ping", "sleep", "tested", "save", "alert"}

\* the endpoints of g before the current one are complete: each has its
\* record, built from retry_count samples, and the record is in the store
EarlierEndpointsDone(g) ==
    \A i \in 1..(gidx[g] - 1) :
        /\ i <= Len(gresults[g])
        /\ gresults[g][i].target = Endpoints[g][i]
        /\ Len(gresults[g][i].details.packet_losses) = retry_count
        /\ BagIn(StatusRow(gresults[g][i]), store_status)

\* the step in which g turns to its next endpoint
NextEndpoint(g) == gidx[g] >= 1 /\ gidx'[g] = gidx[g] + 1

\* C24: a group works on one endpoint at a time and takes its samples one
\* by one.  The samples it holds are those of the current endpoint only, a step
\* adds at most one sample, and the group turns to its next endpoint only
\* when the current one has all retry_count samples and its record is in
\* the store; the groups themselves run interleaved.
C24_OneEndpointAtATimePerGroup ==
    /\ [](\A g \in Groups :
            InLoop(g) =>
                /\ gidx[g] \in 1..Len(Endpoints[g])
                /\ Len(packet_losses[g]) <= retry_count
                /\ Len(latencies[g]) = Len(packet_losses[g])
                /\ Len(gresults[g]) \in {gidx[g] - 1, gidx[g]}
                /\ EarlierEndpointsDone(g))
    /\ [][\A g \in Groups :
            /\ Len(packet_losses'[g]) <= Len(packet_losses[g]) + 1
            /\ NextEndpoint(g) =>
                 /\ Len(packet_losses[g]) = retry_count
                 /\ status[g].target = Endpoints[g][gidx[g]]
                 /\ Len(status[g].details.packet_losses) = retry_count
                 /\ BagIn(StatusRow(status[g]), store_status)
                 /\ packet_losses'[g] = << >>]_vars

\* two groups are between two samples at the same time, and the cable group
\* is at its second endpoint
C24_Witness ==
    /\ retry_count = CycleRetry
    /\ gpc["cable"] = "sleep" /\ gidx["cable"] = 2 /\ Len(packet_losses["cable"]) = 1
    /\ gpc["isp"] = "sleep" /\ Len(packet_losses["isp"]) = 1


\* ---- C25 -----------------------------------------------------------------------
\* the records of g whose _save_status call has returned: all it has built,
\* but the last one while that call is still to come, or may have raised
SavedRecords(g) ==
    {gresults[g][i] : i \in 1..(IF gpc[g] \in {"save", "raised"}
                                  THEN Len(gresults[g]) - 1
                                  ELSE Len(gresults[g]))}

\* the records of g for which the "if status.status != 'operational'"
\* statement is over
AlertedRecords(g) ==
    {gresults[g][i] : i \in 1..(IF gpc[g] \in {"save", "alert", "raised"}
                                  THEN Len(gresults[g]) - 1
                                  ELSE Len(gresults[g]))}

ProducedRecords(g) == {gresults[g][i] : i \in 1..Len(gresults[g])}

\* the rows of the alerts table written by _create_alert
MonitorRows == SelectSeq(store_alerts, LAMBDA row : row.details_null)

\* C25: under every interleaving of the three group tasks the store holds
\* each record whose _save_status has returned exactly once and nothing but
\* records the groups built, and the alerts table holds exactly one
\* _create_alert row for each non-operational record whose call has returned.
C25_NoStoreWriteIsLost ==
    /\ \A g \in Groups : \A rec \in SavedRecords(g) :
           CopiesIn(StatusRow(rec), store_status) = 1
    /\ \A row \in BagToSet(store_status) :
           /\ CopiesIn(row, store_status) = 1
           /\ \E g \in Groups : row \in ProducedRecords(g)
    /\ \A g \in Groups : \A rec \in AlertedRecords(g) :
           Cardinality({k \in 1..Len(MonitorRows) : MonitorRows[k].target = rec.target})
             = IF rec.status = "operational" THEN 0 ELSE 1
    /\ \A k \in 1..Len(MonitorRows) :
           /\ \E g \in Groups : \E rec \in ProducedRecords(g) :
                 rec.target = MonitorRows[k].target /\ rec.status # "operational"
           /\ \A j \in 1..Len(MonitorRows) :
                 MonitorRows[j].target = MonitorRows[k].target => j = k

\* all three tasks are done, their four records are stored, and a later
\* group wrote its alert before an earlier one
C25_Witness ==
    /\ pc = "cycle"
    /\ \A g \in Groups : gpc[g] = "done"
    /\ BagCardinality(store_status) = 4
    /\ Len(store_alerts) = 2
    /\ store_alerts[1].target = "8.8.8.8"
    /\ store_alerts[2].target = "202.12.27.33"


\* ---- C26 -----------------------------------------------------------------------
\* start_monitoring has set NetworkMonitoringSystem.is_running and the flag is
\* clear again: stop() has run, on a signal or in the finally clause
StopRequested == mode = "monitor" /\ pc # "boot" /\ ~sys_running

\* C26: once a stop request has been handled, no further monitoring cycle
\* starts.
C26_NoCycleStartsAfterAStopRequest ==
    [][StopRequested => cycles' = cycles]_vars


\* ---- C27 -----------------------------------------------------------------------
\* the rule alerts of the record being handled that are in the alerts table
RuleRowsFor(n) ==
    \A k \in 1..n :
        \E r \in 1..Len(store_alerts) :
            /\ ~store_alerts[r].details_null
            /\ store_alerts[r].alert_type = alerts[k].rule_name
            /\ store_alerts[r].target = alerts[k].target

\* C27: run_single_cycle handles the alerts of a record one at a time, in
\* the order check_alert_conditions returned them.  A dispatch is in progress
\* only for the alert at the cursor and only after its row was written; a
\* row is written only while no dispatch is in progress, for the alert at
\* the cursor, all alerts before it having been saved and dispatched; and
\* once save_alert has raised, nothing is dispatched, saved or evaluated
\* any more.
C27_AlertsAreHandledOneAtATime ==
    /\ [](/\ (mode = "single" /\ dispatch_state # "idle") =>
                /\ pc = "notifying"
                /\ aidx <= Len(alerts)
                /\ dispatch_alert = alerts[aidx]
                /\ RuleRowsFor(aidx)
          /\ (mode = "single" /\ pc \in {"evaluated", "saved"}) =>
                /\ dispatch_state = "idle"
                /\ RuleRowsFor(IF pc = "saved" THEN aidx ELSE aidx - 1))
    /\ [][/\ (pc = "evaluated" /\ pc' = "saved") =>
                /\ dispatch_state = "idle"
                /\ store_alerts' = Append(store_alerts, RuleAlertRow(store_alerts, alerts[aidx]))
                /\ aidx' = aidx
          /\ (pc = "saved" /\ pc' # "saved") =>
                /\ pc' = "notifying"
                /\ dispatch_alert' = alerts[aidx]
                /\ store_alerts' = store_alerts
          /\ (pc = "notifying" /\ pc' # "notifying") =>
                /\ dispatch_state = "returned"
                /\ pc' = "evaluated"
                /\ aidx' = aidx + 1
                /\ store_alerts' = store_alerts
          /\ pc = "failed" =>
                /\ pc' = "failed"
                /\ dispatch_state' = "idle"
                /\ task' = task
                /\ store_alerts' = store_alerts
                /\ calls' = calls
                /\ ridx' = ridx]_vars

\* save_alert raised on the second alert of a record: the first alert is
\* stored and was dispatched, later records are left unevaluated
C27_Witness ==
    /\ mode = "single"
    /\ pc = "failed"
    /\ details_column
    /\ aidx = 2
    /\ Len(alerts) >= 2
    /\ ridx < Len(results)
    /\ \E r \in 1..Len(store_alerts) :
          ~store_alerts[r].details_null /\ store_alerts[r].alert_type = alerts[1].rule_name
    /\ dispatch_state = "idle"
    /\ \E c \in Channels : task[c] \in Completed


\* ---- C28 -----------------------------------------------------------------------
\* C28: when run_monitoring_cycle has returned, the records of the returned
\* list and the status rows written during the cycle are the same: every
\* returned record is in the store exactly once and every stored row is a
\* returned record.
C28_ReturnedRecordsAreThePersistedRecords ==
    (mode = "single" /\ pc = "process") =>
        /\ \A i \in 1..Len(results) : CopiesIn(StatusRow(results[i]), store_status) = 1
        /\ \A row \in BagToSet(store_status) :
              \E i \in 1..Len(results) : StatusRow(results[i]) = row


\* ---- C29 -----------------------------------------------------------------------
\* the alerts table after the monitor handled record st
AfterMonitorAlert(rows, st) ==
    IF st.status = "operational" THEN rows
    ELSE Append(rows,
                [MonitorAlertRow(rows, st) EXCEPT
                    !.severity = IF st.status = "down" THEN "HIGH" ELSE "MEDIUM"])

\* C29: during a monitoring cycle a group that has persisted a record writes,
\* before it turns to its next endpoint or returns, one alert row for the
\* record when its status is 'down' (severity HIGH) or 'degraded' (severity
\* MEDIUM) and none when it is 'operational'; the alerts table changes in no
\* other step of the cycle, and the alert rules are neither read nor changed.
C29_MonitorAlertsEveryAbnormalRecord ==
    /\ [](\A g \in Groups :
            gpc[g] = "alert" =>
                /\ BagIn(StatusRow(status[g]), store_status)
                /\ status[g].target = Endpoints[g][gidx[g]]
                /\ status[g].status \in {"operational", "degraded", "down"})
    /\ [][/\ \A g \in Groups :
                /\ (gpc[g] = "alert" /\ gpc'[g] \notin {"alert", "raised"}) =>
                      /\ store_alerts' = AfterMonitorAlert(store_alerts, status[g])
                      /\ alert_rules' = alert_rules
                /\ (gpc[g] = "save" /\ gpc'[g] # "save") => gpc'[g] \in {"alert", "raised"}
                /\ gidx'[g] # gidx[g] => gpc[g] \in {"start", "alert"}
          /\ (pc = "cycle" /\ store_alerts' # store_alerts) =>
                \E g \in Groups :
                    /\ gpc[g] = "alert"
                    /\ gpc'[g] \notin {"alert", "raised"}
                    /\ status[g].status # "operational"]_vars

\* the cable group met a degraded and then a down endpoint: a MEDIUM and a
\* HIGH row, in that order
C29_Witness ==
    /\ gpc["cable"] = "done"
    /\ Len(store_alerts) = 2
    /\ store_alerts[1].severity = "MEDIUM" /\ store_alerts[1].alert_type = "degraded"
    /\ store_alerts[2].severity = "HIGH" /\ store_alerts[2].alert_type = "down"


\* ---- C30 -----------------------------------------------------------------------
\* positions of the rules named n
Matches(n) == {i \in 1..Len(alert_rules) : alert_rules[i].name = n}

\* what update_alert_rule(n, **kwargs) may change and what it must leave
UpdateFrame(n, kwargs) ==
    LET known == DOMAIN kwargs \cap RuleFields
    IN  /\ Len(alert_rules') = Len(alert_rules)
        /\ \A j \in 1..Len(alert_rules) :
              /\ DOMAIN alert_rules'[j] = RuleFields
              /\ (\E i \in Matches(n) : i < j) \/ j \notin Matches(n) =>
                    alert_rules'[j] = alert_rules[j]
              /\ \A f \in RuleFields \ known : alert_rules'[j][f] = alert_rules[j][f]
              /\ (j \in Matches(n) /\ \A i \in Matches(n) : j <= i) =>
                    \A f \in known : alert_rules'[j][f] = kwargs[f]
        /\ (Matches(n) = {} \/ known = {}) => alert_rules' = alert_rules

\* C30: update_alert_rule changes at most the first rule of the given name,
\* and of that rule exactly the fields named by keyword arguments that are
\* rule attributes; every other rule and field, and the number and order of
\* the rules, stay as they were, and a name that matches no rule or keyword
\* arguments that name no attribute change nothing.
C30_UpdateChangesOnlyTheFirstMatch ==
    [][\A n \in RuleNames(alert_rules) \cup {"No Such Rule"} :
         \A kwargs \in UpdateKwargs :
            UpdateAlertRule(n, kwargs) => UpdateFrame(n, kwargs)]_vars

\* two rules are named 'High Packet Loss Alert' and an update has disabled
\* the first of them only
C30_Witness ==
    /\ mutations = 1
    /\ Len(alert_rules) = Len(DefaultRules) + 1
    /\ \E i, j \in 1..Len(alert_rules) :
          /\ i < j
          /\ alert_rules[i].name = "High Packet Loss Alert"
          /\ alert_rules[j].name = "High Packet Loss Alert"
          /\ ~alert_rules[i].enabled
          /\ alert_rules[j].enabled

====
